---- MODULE Spec2Model ----
(***************************************************************************)
(* The script interpreter of script/src/interpreter.rs as a state machine. *)
(*                                                                         *)
(* One behaviour of Spec is one call of eval_script: the script, the flags *)
(* and the stack handed in are fixed by Init, Step is one iteration of the *)
(* instruction loop (lines 310-877) and Finish is the code after the loop  *)
(* (lines 879-888).  One behaviour of VerifySpec is one call of            *)
(* verify_script (lines 232-291), which calls eval_script up to three      *)
(* times.  Byte strings are sequences of integers 0..255, a stack is a     *)
(* sequence whose last element is the top.                                 *)
(***************************************************************************)
EXTENDS Integers, Sequences, FiniteSets, TLC

VARIABLES
    script,      \* the bytes of the script being evaluated
    flags,       \* the set of VerificationFlags that are switched on
    stack,       \* the evaluation stack (a &mut argument of eval_script)
    altstack,    \* the alt-stack, local to the call
    exec_stack,  \* the conditional stack, local to the call
    pc,          \* byte offset of the instruction the loop is at
    op_count,    \* countable opcodes decoded so far
    begincode,   \* offset recorded by OP_CODESEPARATOR
    broke,       \* the loop was left by the break of line 451
    result,      \* "running", "Ok(true)", "Ok(false)", "Err(<kind>)" or "panic"
    checker,     \* the SignatureChecker: the <<signature, public>> it accepts
    checker_calls, \* the calls of the checker made so far
    lock_checker, \* the SignatureChecker: the lock times and sequences it accepts
    phase,       \* where verify_script is; "eval_script" for a direct call
    script_sig,  \* verify_script's argument
    script_pubkey, \* verify_script's argument
    stack_copy,  \* verify_script's local
    verify_result \* "running", "Ok(())", "Err(<kind>)" or "panic"

eval_vars == <<script, flags, stack, altstack, exec_stack, pc, op_count,
               begincode, broke, result, checker, checker_calls,
               lock_checker>>

verify_vars == <<phase, script_sig, script_pubkey, stack_copy, verify_result>>

vars == <<eval_vars, verify_vars>>

---------------------------------------------------------------------------
(* Bounds of the model.                                                    *)

\* Instructions in a generated script.
MaxInstr == 4
\* Instructions in a generated script that is run on a given stack.
MaxValueInstr == 2
\* Elements of a generated initial stack.
MaxInitStack == 1

---------------------------------------------------------------------------
(* Program constants.                                                      *)

MAX_SCRIPT_SIZE == 10000
MAX_SCRIPT_ELEMENT_SIZE == 520
MAX_OPS_PER_SCRIPT == 201
MAX_STACK_SIZE == 1000
MAX_PUBKEYS_PER_MULTISIG == 20
\* The largest number of 31 bits, the largest magnitude of a 4-byte Num.
MaxInt31 == 2147483647

(* Opcode bytes (enum Opcode).                                             *)
OP_0 == 0
OP_PUSHBYTES_1 == 1
OP_PUSHBYTES_2 == 2
OP_PUSHBYTES_75 == 75
OP_PUSHDATA1 == 76
OP_PUSHDATA2 == 77
OP_PUSHDATA4 == 78
OP_1NEGATE == 79
OP_RESERVED == 80
OP_1 == 81
OP_2 == 82
OP_16 == 96
OP_NOP == 97
OP_VER == 98
OP_IF == 99
OP_NOTIF == 100
OP_VERIF == 101
OP_VERNOTIF == 102
OP_ELSE == 103
OP_ENDIF == 104
OP_VERIFY == 105
OP_RETURN == 106
OP_TOALTSTACK == 107
OP_FROMALTSTACK == 108
OP_2DROP == 109
OP_2DUP == 110
OP_3DUP == 111
OP_IFDUP == 115
OP_DEPTH == 116
OP_DROP == 117
OP_DUP == 118
OP_CAT == 126
OP_SUBSTR == 127
OP_LEFT == 128
OP_RIGHT == 129
OP_SIZE == 130
OP_INVERT == 131
OP_AND == 132
OP_OR == 133
OP_XOR == 134
OP_EQUAL == 135
OP_EQUALVERIFY == 136
OP_RESERVED1 == 137
OP_RESERVED2 == 138
OP_ADD == 147
OP_SUB == 148
OP_LESSTHAN == 159
OP_GREATERTHAN == 160
OP_LESSTHANOREQUAL == 161
OP_GREATERTHANOREQUAL == 162
OP_WITHIN == 165
OP_2MUL == 141
OP_2DIV == 142
OP_MUL == 149
OP_DIV == 150
OP_MOD == 151
OP_LSHIFT == 152
OP_RSHIFT == 153
OP_HASH160 == 169
OP_CODESEPARATOR == 171
OP_CHECKSIG == 172
OP_CHECKSIGVERIFY == 173
OP_CHECKMULTISIG == 174
OP_CHECKMULTISIGVERIFY == 175
OP_NOP1 == 176
OP_CHECKLOCKTIMEVERIFY == 177
OP_CHECKSEQUENCEVERIFY == 178
OP_NOP4 == 179
OP_NOP10 == 185
OP_2OVER == 112
OP_2ROT == 113
OP_2SWAP == 114
OP_BOOLAND == 154
OP_BOOLOR == 155
OP_NUMEQUAL == 156
OP_NUMEQUALVERIFY == 157
OP_NUMNOTEQUAL == 158
OP_MIN == 163
OP_MAX == 164
OP_NIP == 119
OP_OVER == 120
OP_PICK == 121
OP_ROLL == 122
OP_ROT == 123
OP_SWAP == 124
OP_TUCK == 125
OP_1ADD == 139
OP_1SUB == 140
OP_NEGATE == 143
OP_ABS == 144
OP_NOT == 145
OP_0NOTEQUAL == 146
OP_RIPEMD160 == 166
OP_SHA1 == 167
OP_SHA256 == 168
OP_HASH256 == 170

---------------------------------------------------------------------------
(* Opcode predicates.                                                      *)

\* Opcode::is_countable: every opcode above OP_16.
is_countable(opcode) == opcode > OP_16

\* The opcodes the reader rejects wherever they occur.
DisabledOpcodes ==
    { OP_CAT, OP_SUBSTR, OP_LEFT, OP_RIGHT, OP_INVERT, OP_AND, OP_OR, OP_XOR,
      OP_2MUL, OP_2DIV, OP_MUL, OP_DIV, OP_MOD, OP_LSHIFT, OP_RSHIFT,
      OP_VERIF, OP_VERNOTIF }

\* Opcode::is_disabled.
is_disabled(opcode) == opcode \in DisabledOpcodes

---------------------------------------------------------------------------
(* Byte strings and numbers.                                               *)

\* n copies of x.
Repeat(x, n) == [i \in 1..n |-> x]

RECURSIVE Flatten(_)
Flatten(ss) == IF ss = <<>> THEN <<>> ELSE Head(ss) \o Flatten(Tail(ss))

\* Little-endian magnitude of n > 0.
RECURSIVE MagnitudeBytes(_)
MagnitudeBytes(n) ==
    IF n = 0 THEN <<>> ELSE <<n % 256>> \o MagnitudeBytes(n \div 256)

\* Num::to_bytes: minimal little-endian encoding, sign bit in the top bit of
\* the last byte, zero is the empty string.
NumToBytes(n) ==
    IF n = 0 THEN <<>>
    ELSE LET a == IF n < 0 THEN -n ELSE n
             m == MagnitudeBytes(a)
             last == m[Len(m)]
         IN IF last >= 128
              THEN m \o (IF n < 0 THEN <<128>> ELSE <<0>>)
              ELSE IF n < 0 THEN [m EXCEPT ![Len(m)] = last + 128] ELSE m

\* read_usize: a little-endian length prefix.
RECURSIVE ReadUsize(_)
ReadUsize(bytes) ==
    IF bytes = <<>> THEN 0 ELSE Head(bytes) + 256 * ReadUsize(Tail(bytes))

\* Num::from_slice: err is "" and value the number when the bytes decode.
\* More than max_size bytes do not; with require_minimal, neither does a
\* last byte of no magnitude that the byte before it does not need.
Num_from_slice(data, require_minimal, max_size) ==
    IF Len(data) > max_size THEN [err |-> "NumberOverflow", value |-> 0]
    ELSE IF data = <<>> THEN [err |-> "", value |-> 0]
    ELSE LET last == data[Len(data)]
             magnitude == ReadUsize([data EXCEPT ![Len(data)] = last % 128])
         IN IF /\ require_minimal
               /\ last % 128 = 0
               /\ (Len(data) <= 1 \/ data[Len(data) - 1] < 128)
              THEN [err |-> "NumberNotMinimallyEncoded", value |-> 0]
            ELSE [err |-> "",
                  value |-> IF last >= 128 THEN -magnitude ELSE magnitude]

\* A Num (an i64) beyond 31 bits is kept as a sign and a magnitude in two
\* parts: the magnitude is high * 2^31 + low with 0 <= low < 2^31.
WideNum(negative, high, low) ==
    [negative |-> negative, high |-> high, low |-> low]

\* The wide form of a number of at most 31 bits.
ToWide(n) == WideNum(n < 0, 0, IF n < 0 THEN -n ELSE n)

\* Num + Num for operands of at most 31 bits.
WideAdd(v1, v2) ==
    IF v1 > 0 /\ v2 > 0 /\ v1 > MaxInt31 - v2
      THEN WideNum(FALSE, 1, v1 - (MaxInt31 - v2) - 1)
    ELSE IF v1 < 0 /\ v2 < 0 /\ (-v1) > MaxInt31 - (-v2)
      THEN WideNum(TRUE, 1, (-v1) - (MaxInt31 - (-v2)) - 1)
    ELSE ToWide(v1 + v2)

\* Num::to_bytes for a wide number.
WideToBytes(w) ==
    IF w.high = 0 THEN NumToBytes(IF w.negative THEN -w.low ELSE w.low)
    ELSE LET m == << w.low % 256, (w.low \div 256) % 256,
                     (w.low \div 65536) % 256,
                     (w.low \div 16777216) + 128 * (w.high % 2) >>
                   \o MagnitudeBytes(w.high \div 2)
             last == m[Len(m)]
         IN IF last >= 128
              THEN m \o (IF w.negative THEN <<128>> ELSE <<0>>)
              ELSE IF w.negative THEN [m EXCEPT ![Len(m)] = last + 128]
              ELSE m

\* Num::from_slice for up to five bytes: err is "" and the number is given
\* in wide form when the bytes decode.
Num_from_slice_wide(data, require_minimal, max_size) ==
    IF Len(data) > max_size
      THEN [err |-> "NumberOverflow", value |-> ToWide(0)]
    ELSE IF data = <<>> THEN [err |-> "", value |-> ToWide(0)]
    ELSE LET last == data[Len(data)]
             bytes == [i \in 1..5 |->
                         IF i > Len(data) THEN 0
                         ELSE IF i = Len(data) THEN last % 128 ELSE data[i]]
             low == bytes[1] + 256 * bytes[2] + 65536 * bytes[3]
                    + 16777216 * (bytes[4] % 128)
             high == (bytes[4] \div 128) + 2 * bytes[5]
         IN IF /\ require_minimal
               /\ last % 128 = 0
               /\ (Len(data) <= 1 \/ data[Len(data) - 1] < 128)
              THEN [err |-> "NumberNotMinimallyEncoded", value |-> ToWide(0)]
            ELSE [err |-> "",
                  value |-> WideNum(last >= 128 /\ (high # 0 \/ low # 0),
                                    high, low)]

---------------------------------------------------------------------------
(* The instruction reader (Script::get_instruction).                       *)

NoInstruction == [ok |-> FALSE, opcode |-> 0, has_data |-> FALSE,
                  data |-> <<>>, step |-> 0]

\* The instruction at byte offset position; ok is FALSE (Error::BadOpcode)
\* when the byte is no opcode or a length prefix or payload runs past the
\* end of the script.
get_instruction(s, position) ==
    LET opcode == s[position + 1]
        PushOf(lenbytes) ==
            IF position + 1 + lenbytes > Len(s) THEN NoInstruction
            ELSE LET n == ReadUsize(SubSeq(s, position + 2, position + 1 + lenbytes))
                 IN IF position + 1 + lenbytes + n > Len(s) THEN NoInstruction
                    ELSE [ok |-> TRUE, opcode |-> opcode, has_data |-> TRUE,
                          data |-> SubSeq(s, position + 2 + lenbytes,
                                          position + 1 + lenbytes + n),
                          step |-> lenbytes + n + 1]
    IN IF opcode > OP_NOP10 THEN NoInstruction
       ELSE IF opcode = OP_PUSHDATA1 THEN PushOf(1)
       ELSE IF opcode = OP_PUSHDATA2 THEN PushOf(2)
       ELSE IF opcode = OP_PUSHDATA4 THEN PushOf(4)
       ELSE IF opcode <= OP_PUSHBYTES_75
         THEN IF position + 1 + opcode > Len(s) THEN NoInstruction
              ELSE [ok |-> TRUE, opcode |-> opcode, has_data |-> TRUE,
                    data |-> SubSeq(s, position + 2, position + 1 + opcode),
                    step |-> opcode + 1]
       ELSE [ok |-> TRUE, opcode |-> opcode, has_data |-> FALSE,
             data |-> <<>>, step |-> 1]

\* The offsets of the first k instructions of s from offset p on, reading s
\* instruction by instruction up to its end or to the first byte that does
\* not decode.  (By halves, to keep the evaluation shallow.)
RECURSIVE StartsFrom(_, _, _)
StartsFrom(s, p, k) ==
    IF k = 0 \/ p >= Len(s) THEN <<>>
    ELSE IF ~get_instruction(s, p).ok THEN <<>>
    ELSE IF k = 1 THEN <<p>>
    ELSE LET h == k \div 2
             a == StartsFrom(s, p, h)
         IN IF Len(a) < h THEN a
            ELSE a \o StartsFrom(s, a[h] + get_instruction(s, a[h]).step, k - h)

\* The offsets of the instructions of s.
InstructionStarts(s) == StartsFrom(s, 0, Len(s))

\* Script::is_push_only: every instruction decodes and none has an opcode
\* above OP_16.
is_push_only(s) ==
    LET I == InstructionStarts(s)
    IN /\ \A j \in 1..Len(I) : s[I[j] + 1] <= OP_16
       /\ IF I = <<>> THEN s = <<>>
          ELSE I[Len(I)] + get_instruction(s, I[Len(I)]).step = Len(s)

\* Script::is_pay_to_script_hash: OP_HASH160 <20 bytes> OP_EQUAL.
is_pay_to_script_hash(s) ==
    Len(s) = 23 /\ s[1] = OP_HASH160 /\ s[2] = 20 /\ s[23] = OP_EQUAL

\* Script::subscript: the script from byte offset from on.
subscript(s, from) == SubSeq(s, from + 1, Len(s))

\* The instruction that pushes data with the shortest opcode that can carry
\* its length.
PushBytes(data) ==
    IF Len(data) <= OP_PUSHBYTES_75 THEN <<Len(data)>> \o data
    ELSE IF Len(data) <= 255 THEN <<OP_PUSHDATA1, Len(data)>> \o data
    ELSE <<OP_PUSHDATA2, Len(data) % 256, Len(data) \div 256>> \o data

\* s from offset p on, without the instructions that are the push pat.
RECURSIVE FindAndDeleteFrom(_, _, _)
FindAndDeleteFrom(s, pat, p) ==
    IF p >= Len(s) THEN <<>>
    ELSE IF p + Len(pat) <= Len(s) /\ SubSeq(s, p + 1, p + Len(pat)) = pat
      THEN FindAndDeleteFrom(s, pat, p + Len(pat))
    ELSE LET i == get_instruction(s, p)
         IN IF ~i.ok THEN SubSeq(s, p + 1, Len(s))
            ELSE SubSeq(s, p + 1, p + i.step)
                 \o FindAndDeleteFrom(s, pat, p + i.step)

\* Script::find_and_delete: every occurrence of the exact push of sig is
\* removed.
find_and_delete(s, sig) == FindAndDeleteFrom(s, PushBytes(sig), 0)

\* dhash160 (crypto): a stand-in digest, 20 bytes that the data determine.
dhash160(data) ==
    [i \in 1..20 |->
        IF data = <<>> THEN i
        ELSE (Len(data) + 3 * data[1] + 5 * data[Len(data)] + 7 * i) % 256]

---------------------------------------------------------------------------
(* Encoding helpers of interpreter.rs.                                     *)

\* check_minimal_push without the case of OP_1NEGATE.
check_minimal_push_without_negate(data, opcode) ==
    IF data = <<>> THEN opcode = OP_0
    ELSE IF Len(data) = 1 /\ data[1] >= 1 /\ data[1] <= 16
      THEN opcode = OP_1 + (data[1] - 1)
    ELSE IF Len(data) <= 75 THEN opcode = Len(data)
    ELSE IF Len(data) <= 255 THEN opcode = OP_PUSHDATA1
    ELSE IF Len(data) <= 65535 THEN opcode = OP_PUSHDATA2
    ELSE TRUE

\* Lines 191-213.
check_minimal_push(data, opcode) ==
    IF data = <<>> THEN opcode = OP_0
    ELSE IF Len(data) = 1 /\ data[1] >= 1 /\ data[1] <= 16
      THEN opcode = OP_1 + (data[1] - 1)
    ELSE IF Len(data) = 1 /\ data[1] = 129 THEN opcode = OP_1NEGATE
    ELSE IF Len(data) <= 75 THEN opcode = Len(data)
    ELSE IF Len(data) <= 255 THEN opcode = OP_PUSHDATA1
    ELSE IF Len(data) <= 65535 THEN opcode = OP_PUSHDATA2
    ELSE TRUE

\* cast_to_bool without the negative zero: only a last byte 0x00 is false.
cast_to_bool_without_negative_zero(data) ==
    IF data = <<>> THEN FALSE
    ELSE IF \E i \in 1..(Len(data) - 1) : data[i] # 0 THEN TRUE
    ELSE data[Len(data)] # 0

\* Lines 215-230.
cast_to_bool(data) ==
    IF data = <<>> THEN FALSE
    ELSE IF \E i \in 1..(Len(data) - 1) : data[i] # 0 THEN TRUE
    ELSE LET last == data[Len(data)]
         IN ~(last = 0 \/ last = 128)

---------------------------------------------------------------------------
(* Signature and public-key encoding (lines 12-189).                       *)

\* x & 0x80 and the bitwise !x of a u8.
HighBit(x) == IF x >= 128 THEN 128 ELSE 0
BitNot8(x) == 255 - x

\* Lines 34-40.
is_public_key(v) ==
    \/ Len(v) = 33 /\ (v[1] = 2 \/ v[1] = 3)
    \/ Len(v) = 65 /\ v[1] = 4

\* Lines 50-137.  The byte the source calls sig[i] is sig[i + 1] here.
is_valid_signature_encoding(sig) ==
    IF Len(sig) < 9 \/ Len(sig) > 73 THEN FALSE
    ELSE IF sig[1] # 48 THEN FALSE
    ELSE IF sig[2] # Len(sig) - 3 THEN FALSE
    ELSE LET len_r == sig[4]
         IN IF len_r + 5 >= Len(sig) THEN FALSE
            ELSE LET len_s == sig[len_r + 6]
                 IN IF len_r + len_s + 7 # Len(sig) THEN FALSE
                    ELSE IF sig[3] # 2 THEN FALSE
                    ELSE IF len_r = 0 THEN FALSE
                    ELSE IF HighBit(sig[5]) # 0 THEN FALSE
                    ELSE IF len_r > 1 /\ sig[5] = 0
                            /\ BitNot8(HighBit(sig[6])) # 0 THEN FALSE
                    ELSE IF sig[len_r + 5] # 2 THEN FALSE
                    ELSE IF len_s = 0 THEN FALSE
                    ELSE IF HighBit(sig[len_r + 7]) # 0 THEN FALSE
                    ELSE IF len_s > 1 /\ sig[len_r + 7] = 0
                            /\ BitNot8(HighBit(sig[len_r + 8])) # 0 THEN FALSE
                    ELSE TRUE

\* Half the order of the curve, big-endian.
HalfOrder ==
    <<127>> \o Repeat(255, 15) \o
    <<93, 87, 110, 115, 87, 164, 80, 29, 223, 233, 47, 70, 104, 27, 32, 160>>

\* The S integer of a signature of valid encoding, without leading zeros.
SignatureS(sig) ==
    LET len_r == sig[4]
        len_s == sig[len_r + 6]
        s == SubSeq(sig, len_r + 7, len_r + 6 + len_s)
        nz == { i \in 1..Len(s) : s[i] # 0 }
    IN IF nz = {} THEN <<>>
       ELSE SubSeq(s, CHOOSE i \in nz : \A j \in nz : i <= j, Len(s))

\* Signature::check_low_s: S is at most half the order.
check_low_s(sig) ==
    LET s == SignatureS(sig)
        d == { i \in 1..Len(s) : Len(s) = 32 /\ s[i] # HalfOrder[i] }
    IN \/ Len(s) < 32
       \/ /\ Len(s) = 32
          /\ \/ d = {}
             \/ LET i == CHOOSE i \in d : \A j \in d : i <= j
                IN s[i] < HalfOrder[i]

\* Lines 139-150; "" stands for Ok(()).
is_low_der_signature(sig) ==
    IF ~is_valid_signature_encoding(sig) THEN "SignatureDer"
    ELSE IF ~check_low_s(sig) THEN "SignatureHighS"
    ELSE ""

\* Sighash::is_defined: ALL, NONE or SINGLE, with or without ANYONECANPAY.
Sighash_is_defined(u) == (u % 128) \in {1, 2, 3}

\* Lines 152-158.
is_defined_hashtype_signature(sig) ==
    IF sig = <<>> THEN FALSE ELSE Sighash_is_defined(sig[Len(sig)])

\* Lines 160-181; "" stands for Ok(()).
check_signature_encoding(sig, fl) ==
    IF sig = <<>> THEN ""
    ELSE IF fl \cap {"verify_dersig", "verify_low_s", "verify_strictenc"} # {}
            /\ ~is_valid_signature_encoding(sig)
      THEN "SignatureDer"
    ELSE IF "verify_low_s" \in fl /\ is_low_der_signature(sig) # ""
      THEN is_low_der_signature(sig)
    ELSE IF "verify_strictenc" \in fl /\ ~is_defined_hashtype_signature(sig)
      THEN "SignatureHashtype"
    ELSE ""

\* Lines 183-189; "" stands for Ok(()).
check_pubkey_encoding(v, fl) ==
    IF "verify_strictenc" \in fl /\ ~is_public_key(v) THEN "PubkeyType" ELSE ""

\* Public::from_slice succeeds on 33 and on 65 bytes.
Public_from_slice_ok(public) == Len(public) \in {33, 65}

\* SignatureChecker::check_signature of the checker chk, a pure function of
\* its arguments.
checker_check_signature(chk, signature, public, script_code, hash_type) ==
    <<signature, public>> \in chk

\* One call of checker.check_signature, as it is recorded in checker_calls.
CheckerCall(signature, public, script_code, hash_type) ==
    [signature |-> signature, public |-> public,
     script_code |-> script_code, hash_type |-> hash_type]

\* Lines 12-32: the answer and the calls of the checker it took.
check_signature(chk, sig, public, script_code) ==
    IF ~Public_from_slice_ok(public) THEN [success |-> FALSE, calls |-> <<>>]
    ELSE IF sig = <<>> THEN [success |-> FALSE, calls |-> <<>>]
    ELSE LET hash_type == sig[Len(sig)]
             signature == SubSeq(sig, 1, Len(sig) - 1)
         IN [success |-> checker_check_signature(chk, signature, public,
                                                 script_code, hash_type),
             calls |-> <<CheckerCall(signature, public, script_code,
                                     hash_type)>>]

---------------------------------------------------------------------------
(* The evaluation stack (struct Stack).                                    *)

StackTop(st) == st[Len(st)]
StackPop(st) == SubSeq(st, 1, Len(st) - 1)
\* Stack::dup(n): copy the n top elements, in order.
StackDup(st, n) == st \o SubSeq(st, Len(st) - n + 1, Len(st))
\* Stack::drop(n): remove the n top elements.
StackDrop(st, n) == SubSeq(st, 1, Len(st) - n)

---------------------------------------------------------------------------
(* What one opcode does.  A frame is the state an opcode can change; an    *)
(* outcome says how the loop goes on: "next" (fall out of the match),      *)
(* "break", "err" (return Err) or "panic".                                 *)

Frame(st, alt, ex, bc) ==
    [stack |-> st, altstack |-> alt, exec_stack |-> ex, begincode |-> bc]

Continue(f) == [kind |-> "next", err |-> "", f |-> f, calls |-> <<>>]
Break(f) == [kind |-> "break", err |-> "", f |-> f, calls |-> <<>>]
Fail(e, f) == [kind |-> "err", err |-> e, f |-> f, calls |-> <<>>]
Panic(f) == [kind |-> "panic", err |-> "", f |-> f, calls |-> <<>>]

\* The outcome o of an arm that made these calls of checker.check_signature.
Consulted(o, calls) == [o EXCEPT !.calls = calls]

\* The frame after a successful stack.pop().
Popped(f) == [f EXCEPT !.stack = StackPop(@)]

\* Lines 342-424: the push opcodes push the instruction's data.
eval_push(f, instruction) ==
    IF instruction.has_data
      THEN Continue([f EXCEPT !.stack = Append(@, instruction.data)])
      ELSE Continue(f)

\* Lines 425-444: OP_1NEGATE, OP_1 .. OP_16.  The value is computed in u8;
\* for OP_1NEGATE the subtraction goes below zero, which panics in a build
\* with overflow checks and wraps to 255 in one without.
eval_small_int(f, opcode, overflow_checks) ==
    LET diff == opcode - (OP_1 - 1)
        value == diff % 256
    IN IF diff < 0 /\ overflow_checks THEN Panic(f)
       ELSE Continue([f EXCEPT !.stack = Append(@, NumToBytes(value))])

\* Line 451.
eval_nop(f) == Break(f)

\* Lines 505-516: the upgradable NOPs.
eval_upgradable_nop(f, fl) ==
    IF "verify_discourage_upgradable_nops" \in fl
      THEN Fail("DiscourageUpgradableNops", f)
      ELSE Continue(f)

\* eval_if with the error of the failed pop passed on as it is.
eval_if_without_map_err(f, opcode, executing) ==
    IF executing
      THEN IF f.stack = <<>> THEN Fail("InvalidStackOperation", f)
           ELSE LET v == cast_to_bool(StackTop(f.stack))
                    exec_value == IF opcode = OP_NOTIF THEN ~v ELSE v
                IN Continue([f EXCEPT !.stack = StackPop(@),
                                      !.exec_stack = Append(@, exec_value)])
      ELSE Continue([f EXCEPT !.exec_stack = Append(@, FALSE)])

\* Lines 517-526.
eval_if(f, opcode, executing) ==
    IF executing
      THEN IF f.stack = <<>> THEN Fail("UnbalancedConditional", f)
           ELSE LET v == cast_to_bool(StackTop(f.stack))
                    exec_value == IF opcode = OP_NOTIF THEN ~v ELSE v
                IN Continue([f EXCEPT !.stack = StackPop(@),
                                      !.exec_stack = Append(@, exec_value)])
      ELSE Continue([f EXCEPT !.exec_stack = Append(@, FALSE)])

\* Lines 527-533.  Line 532 compares the top entry with its negation and
\* drops the answer: nothing is assigned.
eval_else(f) ==
    IF f.exec_stack = <<>> THEN Fail("UnbalancedConditional", f)
    ELSE LET last == f.exec_stack[Len(f.exec_stack)]
             compared == (f.exec_stack[Len(f.exec_stack)] = ~last)
         IN Continue(f)

\* Lines 534-539.
eval_endif(f) ==
    IF f.exec_stack = <<>> THEN Fail("UnbalancedConditional", f)
    ELSE Continue([f EXCEPT !.exec_stack = SubSeq(@, 1, Len(@) - 1)])

\* Lines 540-545.
eval_verify(f) ==
    IF f.stack = <<>> THEN Fail("InvalidStackOperation", f)
    ELSE IF cast_to_bool(StackTop(f.stack)) THEN Continue(Popped(f))
    ELSE Fail("Verify", Popped(f))

\* Lines 546-548.
eval_return(f) == Fail("ReturnOpcode", f)

\* Lines 549-551.
eval_toaltstack(f) ==
    IF f.stack = <<>> THEN Fail("InvalidStackOperation", f)
    ELSE Continue([Popped(f) EXCEPT !.altstack = Append(@, StackTop(f.stack))])

\* Lines 552-554.
eval_fromaltstack(f) ==
    IF f.altstack = <<>> THEN Fail("InvalidAltstackOperation", f)
    ELSE Continue([f EXCEPT !.stack = Append(@, StackTop(f.altstack)),
                            !.altstack = StackPop(@)])

\* Lines 555-563, 585-587: OP_2DROP, OP_2DUP, OP_3DUP, OP_DUP.
eval_drop_n(f, n) ==
    IF Len(f.stack) < n THEN Fail("InvalidStackOperation", f)
    ELSE Continue([f EXCEPT !.stack = StackDrop(@, n)])

eval_dup_n(f, n) ==
    IF Len(f.stack) < n THEN Fail("InvalidStackOperation", f)
    ELSE Continue([f EXCEPT !.stack = StackDup(@, n)])

\* Lines 573-577.
eval_ifdup(f) ==
    IF f.stack = <<>> THEN Fail("InvalidStackOperation", f)
    ELSE IF cast_to_bool(StackTop(f.stack)) THEN eval_dup_n(f, 1)
    ELSE Continue(f)

\* Lines 578-581.
eval_depth(f) ==
    Continue([f EXCEPT !.stack = Append(@, NumToBytes(Len(f.stack)))])

\* Lines 582-584.
eval_drop(f) ==
    IF f.stack = <<>> THEN Fail("InvalidStackOperation", f)
    ELSE Continue(Popped(f))

\* Lines 616-619.
eval_size(f) ==
    IF f.stack = <<>> THEN Fail("InvalidStackOperation", f)
    ELSE Continue([f EXCEPT !.stack = Append(@, NumToBytes(Len(StackTop(f.stack))))])

\* eval_equal that compares the elements as numbers.
eval_equal_as_numbers(f) ==
    IF f.stack = <<>> THEN Fail("InvalidStackOperation", f)
    ELSE IF Len(f.stack) < 2 THEN Fail("InvalidStackOperation", Popped(f))
    ELSE LET v1 == Num_from_slice_wide(StackTop(f.stack), FALSE, 5).value
             v2 == Num_from_slice_wide(StackTop(StackPop(f.stack)), FALSE,
                                       5).value
         IN Continue([Popped(Popped(f)) EXCEPT !.stack =
                         Append(@, IF v1 = v2 THEN <<1>> ELSE <<0>>)])

\* Lines 620-628: v1 is popped before the pop of v2 can fail.
eval_equal(f) ==
    IF f.stack = <<>> THEN Fail("InvalidStackOperation", f)
    ELSE IF Len(f.stack) < 2 THEN Fail("InvalidStackOperation", Popped(f))
    ELSE LET v1 == StackTop(f.stack)
             v2 == StackTop(StackPop(f.stack))
         IN Continue([Popped(Popped(f)) EXCEPT !.stack =
                         Append(@, IF v1 = v2 THEN <<1>> ELSE <<0>>)])

\* Lines 629-634: the left operand is popped before the pop of the right
\* one can fail.
eval_equalverify(f) ==
    IF f.stack = <<>> THEN Fail("InvalidStackOperation", f)
    ELSE IF Len(f.stack) < 2 THEN Fail("InvalidStackOperation", Popped(f))
    ELSE LET v1 == StackTop(f.stack)
             v2 == StackTop(StackPop(f.stack))
         IN IF v1 = v2 THEN Continue(Popped(Popped(f)))
            ELSE Fail("EqualVerify", Popped(Popped(f)))

\* Num::from(bool).to_bytes().
BoolToBytes(b) == NumToBytes(IF b THEN 1 ELSE 0)

\* The opcodes of lines 661-735 that pop two numbers and push one.
BinaryNumOpcodes ==
    { OP_ADD, OP_SUB, OP_BOOLAND, OP_BOOLOR, OP_NUMEQUAL, OP_NUMNOTEQUAL,
      OP_LESSTHAN, OP_GREATERTHAN, OP_LESSTHANOREQUAL,
      OP_GREATERTHANOREQUAL, OP_MIN, OP_MAX }

\* binary_num_value with OP_SUB computing v1 - v2.
binary_num_value_sub_reversed(opcode, v1, v2) ==
    CASE opcode = OP_ADD -> WideToBytes(WideAdd(v1, v2))
      [] opcode = OP_SUB -> WideToBytes(WideAdd(v1, -v2))
      [] opcode = OP_LESSTHAN -> BoolToBytes(v1 > v2)
      [] opcode = OP_GREATERTHAN -> BoolToBytes(v1 < v2)
      [] opcode = OP_LESSTHANOREQUAL -> BoolToBytes(v1 >= v2)
      [] opcode = OP_GREATERTHANOREQUAL -> BoolToBytes(v1 <= v2)
      [] opcode = OP_BOOLAND -> BoolToBytes(v1 # 0 /\ v2 # 0)
      [] opcode = OP_BOOLOR -> BoolToBytes(v1 # 0 \/ v2 # 0)
      [] opcode = OP_NUMEQUAL -> BoolToBytes(v1 = v2)
      [] opcode = OP_NUMNOTEQUAL -> BoolToBytes(v1 # v2)
      [] opcode = OP_MIN -> NumToBytes(IF v1 <= v2 THEN v1 ELSE v2)
      [] opcode = OP_MAX -> NumToBytes(IF v2 >= v1 THEN v2 ELSE v1)

\* binary_num_value with the operands of OP_SUB and of the comparisons
\* in the other order.
binary_num_value_operands_swapped(opcode, v1, v2) ==
    CASE opcode = OP_ADD -> WideToBytes(WideAdd(v1, v2))
      [] opcode = OP_SUB -> WideToBytes(WideAdd(v1, -v2))
      [] opcode = OP_LESSTHAN -> BoolToBytes(v1 < v2)
      [] opcode = OP_GREATERTHAN -> BoolToBytes(v1 > v2)
      [] opcode = OP_LESSTHANOREQUAL -> BoolToBytes(v1 <= v2)
      [] opcode = OP_GREATERTHANOREQUAL -> BoolToBytes(v1 >= v2)
      [] opcode = OP_BOOLAND -> BoolToBytes(v1 # 0 /\ v2 # 0)
      [] opcode = OP_BOOLOR -> BoolToBytes(v1 # 0 \/ v2 # 0)
      [] opcode = OP_NUMEQUAL -> BoolToBytes(v1 = v2)
      [] opcode = OP_NUMNOTEQUAL -> BoolToBytes(v1 # v2)
      [] opcode = OP_MIN -> NumToBytes(IF v1 <= v2 THEN v1 ELSE v2)
      [] opcode = OP_MAX -> NumToBytes(IF v2 >= v1 THEN v2 ELSE v1)

\* Lines 661-688 and 696-735: the element pushed for v1, decoded from the
\* top, and v2, decoded from the element below it.
binary_num_value(opcode, v1, v2) ==
    CASE opcode = OP_ADD -> WideToBytes(WideAdd(v1, v2))
      [] opcode = OP_SUB -> WideToBytes(WideAdd(v2, -v1))
      [] opcode = OP_LESSTHAN -> BoolToBytes(v1 > v2)
      [] opcode = OP_GREATERTHAN -> BoolToBytes(v1 < v2)
      [] opcode = OP_LESSTHANOREQUAL -> BoolToBytes(v1 >= v2)
      [] opcode = OP_GREATERTHANOREQUAL -> BoolToBytes(v1 <= v2)
      [] opcode = OP_BOOLAND -> BoolToBytes(v1 # 0 /\ v2 # 0)
      [] opcode = OP_BOOLOR -> BoolToBytes(v1 # 0 \/ v2 # 0)
      [] opcode = OP_NUMEQUAL -> BoolToBytes(v1 = v2)
      [] opcode = OP_NUMNOTEQUAL -> BoolToBytes(v1 # v2)
      [] opcode = OP_MIN -> NumToBytes(IF v1 <= v2 THEN v1 ELSE v2)
      [] opcode = OP_MAX -> NumToBytes(IF v2 >= v1 THEN v2 ELSE v1)

\* The second pop and decoding of a binary opcode, v1 being decoded.
binary_num_second(f1, opcode, fl, v1) ==
    IF f1.stack = <<>> THEN Fail("InvalidStackOperation", f1)
    ELSE LET v2 == Num_from_slice(StackTop(f1.stack),
                                  "verify_minimaldata" \in fl, 4)
         IN IF v2.err # "" THEN Fail(v2.err, Popped(f1))
            ELSE Continue([Popped(f1) EXCEPT !.stack =
                     Append(@, binary_num_value(opcode, v1, v2.value))])

\* Lines 661-688 and 696-735: OP_ADD, OP_SUB, OP_BOOLAND, OP_BOOLOR,
\* OP_NUMEQUAL, OP_NUMNOTEQUAL, the four comparisons, OP_MIN and OP_MAX.
eval_binary_num(f, opcode, fl) ==
    IF f.stack = <<>> THEN Fail("InvalidStackOperation", f)
    ELSE LET v1 == Num_from_slice(StackTop(f.stack),
                                  "verify_minimaldata" \in fl, 4)
         IN IF v1.err # "" THEN Fail(v1.err, Popped(f))
            ELSE binary_num_second(Popped(f), opcode, fl, v1.value)

\* Lines 689-695: OP_NUMEQUALVERIFY pops and decodes the two numbers as
\* OP_NUMEQUAL does, and pushes nothing.
eval_numequalverify(f, fl) ==
    LET o == eval_binary_num(f, OP_NUMEQUAL, fl)
    IN IF o.kind # "next" THEN o
       ELSE IF StackTop(o.f.stack) = BoolToBytes(TRUE)
         THEN Continue(Popped(o.f))
       ELSE Fail("NumEqualVerify", Popped(o.f))

\* within_value with the upper bound exclusive.
within_value_upper_exclusive(v1, v2, v3) ==
    IF v2 <= v3 /\ v3 < v1 THEN <<1>> ELSE <<0>>

\* Lines 740-743.
within_value(v1, v2, v3) ==
    IF v2 <= v3 /\ v3 <= v1 THEN <<1>> ELSE <<0>>

\* The third pop and decoding of OP_WITHIN.
within_third(f2, fl, v1, v2) ==
    IF f2.stack = <<>> THEN Fail("InvalidStackOperation", f2)
    ELSE LET v3 == Num_from_slice(StackTop(f2.stack),
                                  "verify_minimaldata" \in fl, 4)
         IN IF v3.err # "" THEN Fail(v3.err, Popped(f2))
            ELSE Continue([Popped(f2) EXCEPT !.stack =
                     Append(@, within_value(v1, v2, v3.value))])

\* The second pop and decoding of OP_WITHIN.
within_second(f1, fl, v1) ==
    IF f1.stack = <<>> THEN Fail("InvalidStackOperation", f1)
    ELSE LET v2 == Num_from_slice(StackTop(f1.stack),
                                  "verify_minimaldata" \in fl, 4)
         IN IF v2.err # "" THEN Fail(v2.err, Popped(f1))
            ELSE within_third(Popped(f1), fl, v1, v2.value)

\* Lines 736-745: OP_WITHIN.
eval_within(f, fl) ==
    IF f.stack = <<>> THEN Fail("InvalidStackOperation", f)
    ELSE LET v1 == Num_from_slice(StackTop(f.stack),
                                  "verify_minimaldata" \in fl, 4)
         IN IF v1.err # "" THEN Fail(v1.err, Popped(f))
            ELSE within_second(Popped(f), fl, v1.value)

\* checker.check_lock_time(n) and checker.check_sequence(n): the checker
\* accepts the numbers of lchk.lock_time and of lchk.sequence.
checker_check_lock_time(lchk, n) == n \in lchk.lock_time
checker_check_sequence(lchk, n) == n \in lchk.sequence

\* The record of one call of check_lock_time or check_sequence.
LockCall(method, n) == [method |-> method, value |-> n]

\* Lines 478-484, the top element being decoded as n.
locktime_decoded(f, n, lchk) ==
    IF n.err # "" THEN Fail(n.err, f)
    ELSE IF n.value.negative THEN Fail("NegativeLocktime", f)
    ELSE Consulted(IF checker_check_lock_time(lchk, n.value)
                     THEN Continue(f)
                     ELSE Fail("UnsatisfiedLocktime", f),
                   << LockCall("check_lock_time", n.value) >>)

\* eval_checklocktimeverify with numbers of at most four bytes.
eval_checklocktimeverify_four_bytes(f, fl, lchk) ==
    IF /\ "verify_clocktimeverify" \notin fl
       /\ "verify_discourage_upgradable_nops" \in fl
      THEN Fail("DiscourageUpgradableNops", f)
    ELSE IF f.stack = <<>> THEN Fail("InvalidStackOperation", f)
    ELSE locktime_decoded(f, Num_from_slice_wide(StackTop(f.stack),
                                 "verify_minimaldata" \in fl, 4), lchk)

\* Lines 452-485: OP_CHECKLOCKTIMEVERIFY.  With the flag off and
\* verify_discourage_upgradable_nops off the arm goes on to line 471.
eval_checklocktimeverify(f, fl, lchk) ==
    IF /\ "verify_clocktimeverify" \notin fl
       /\ "verify_discourage_upgradable_nops" \in fl
      THEN Fail("DiscourageUpgradableNops", f)
    ELSE IF f.stack = <<>> THEN Fail("InvalidStackOperation", f)
    ELSE locktime_decoded(f, Num_from_slice_wide(StackTop(f.stack),
                                 "verify_minimaldata" \in fl, 5), lchk)

\* disable_flag_clear that tests the bit below.
disable_flag_clear_bit_30(n) == (n.low \div 1073741824) % 2 = 0

\* Line 499: n & SEQUENCE_LOCKTIME_DISABLE_FLAG is zero, for n >= 0.  The
\* flag is 1 << 31, the lowest bit of the high part.
disable_flag_clear(n) == n.high % 2 = 0

\* Lines 493-503, the top element being decoded as n.
sequence_decoded(f, n, lchk) ==
    IF n.err # "" THEN Fail(n.err, f)
    ELSE IF n.value.negative THEN Fail("NegativeLocktime", f)
    ELSE IF ~disable_flag_clear(n.value) THEN Continue(f)
    ELSE Consulted(IF checker_check_sequence(lchk, n.value)
                     THEN Continue(f)
                     ELSE Fail("UnsatisfiedLocktime", f),
                   << LockCall("check_sequence", n.value) >>)

\* Lines 486-504: OP_CHECKSEQUENCEVERIFY.  With the flag off and
\* verify_discourage_upgradable_nops off the arm goes on to line 493.
eval_checksequenceverify(f, fl, lchk) ==
    IF /\ "verify_chechsequenceverify" \notin fl
       /\ "verify_discourage_upgradable_nops" \in fl
      THEN Fail("DiscourageUpgradableNops", f)
    ELSE IF f.stack = <<>> THEN Fail("InvalidStackOperation", f)
    ELSE sequence_decoded(f, Num_from_slice_wide(StackTop(f.stack),
                                 "verify_minimaldata" \in fl, 5), lchk)

\* Lines 766-768: begincode becomes the offset of the separator itself.
eval_codeseparator(f, pcv) == Continue([f EXCEPT !.begincode = pcv])

\* Lines 758-761.
eval_hash160(f) ==
    IF f.stack = <<>> THEN Fail("InvalidStackOperation", f)
    ELSE Continue([Popped(f) EXCEPT !.stack =
                      Append(@, dhash160(StackTop(f.stack)))])

\* ripemd160, sha1, sha256 and dhash256 stand-ins: a digest of the length
\* the function has (20 or 32 bytes), determined by the function and by
\* the data.
hash_digest(opcode, data) ==
    [i \in 1..(IF opcode \in {OP_RIPEMD160, OP_SHA1} THEN 20 ELSE 32) |->
        IF data = <<>> THEN (opcode + i) % 256
        ELSE (opcode + Len(data) + 3 * data[1] + 5 * data[Len(data)] + 7 * i)
             % 256]

\* Lines 746-757 and 762-765: OP_RIPEMD160, OP_SHA1, OP_SHA256, OP_HASH256.
eval_hash(f, opcode) ==
    IF f.stack = <<>> THEN Fail("InvalidStackOperation", f)
    ELSE Continue([Popped(f) EXCEPT !.stack =
                      Append(@, hash_digest(opcode, StackTop(f.stack)))])

\* The number of elements a stack must hold for Stack::nip, over(n),
\* rot(n), swap(n) and tuck.
shuffle_depth(opcode) ==
    CASE opcode = OP_2ROT -> 6
      [] opcode \in {OP_2OVER, OP_2SWAP} -> 4
      [] opcode = OP_ROT -> 3
      [] OTHER -> 2

\* Lines 564-572, 588-593 and 607-615: OP_2OVER, OP_2ROT, OP_2SWAP, OP_NIP,
\* OP_OVER, OP_ROT, OP_SWAP, OP_TUCK by Stack::over(2), rot(2), swap(2),
\* nip, over(1), rot(1), swap(1) and tuck.
eval_shuffle(f, opcode) ==
    LET st == f.stack
        n == Len(st)
    IN IF n < shuffle_depth(opcode)
         THEN Fail("InvalidStackOperation", f)
       ELSE Continue([f EXCEPT !.stack =
              CASE opcode = OP_2OVER -> st \o <<st[n - 3], st[n - 2]>>
                [] opcode = OP_2ROT ->
                       SubSeq(st, 1, n - 6) \o SubSeq(st, n - 3, n)
                       \o <<st[n - 5], st[n - 4]>>
                [] opcode = OP_2SWAP ->
                       SubSeq(st, 1, n - 4) \o <<st[n - 1], st[n]>>
                       \o <<st[n - 3], st[n - 2]>>
                [] opcode = OP_NIP -> SubSeq(st, 1, n - 2) \o <<st[n]>>
                [] opcode = OP_OVER -> Append(st, st[n - 1])
                [] opcode = OP_ROT ->
                       SubSeq(st, 1, n - 3) \o <<st[n - 1], st[n], st[n - 2]>>
                [] opcode = OP_SWAP ->
                       SubSeq(st, 1, n - 2) \o <<st[n], st[n - 1]>>
                [] opcode = OP_TUCK ->
                       SubSeq(st, 1, n - 2) \o <<st[n], st[n - 1], st[n]>>])

\* Stack::top(n): the element n places below the top, 0 being the top.
Stack_top(st, n) == st[Len(st) - n]

\* Stack::remove(n): the stack without that element.
Stack_remove(st, n) ==
    SubSeq(st, 1, Len(st) - n - 1) \o SubSeq(st, Len(st) - n + 1, Len(st))

\* pick_roll_out_of_range that refuses the deepest element as well.
pick_roll_out_of_range_deepest(n, st) == n < 0 \/ n >= Len(st) - 1

\* Line 596: the depth is refused, st being the stack once the depth has
\* been popped.
pick_roll_out_of_range(n, st) == n < 0 \/ n >= Len(st)

\* Lines 594-606: OP_PICK and OP_ROLL.
eval_pick_roll(f, opcode, fl) ==
    IF f.stack = <<>> THEN Fail("InvalidStackOperation", f)
    ELSE LET n == Num_from_slice(StackTop(f.stack),
                                 "verify_minimaldata" \in fl, 4)
             st == StackPop(f.stack)
         IN IF n.err # "" THEN Fail(n.err, Popped(f))
            ELSE IF pick_roll_out_of_range(n.value, st)
              THEN Fail("InvalidStackOperation", Popped(f))
            ELSE Continue([f EXCEPT !.stack =
                   IF opcode = OP_PICK THEN Append(st, Stack_top(st, n.value))
                   ELSE Append(Stack_remove(st, n.value),
                               Stack_top(st, n.value))])

UnaryNumOpcodes ==
    { OP_1ADD, OP_1SUB, OP_NEGATE, OP_ABS, OP_NOT, OP_0NOTEQUAL }

\* Lines 635-660: the element a unary numeric opcode pushes for the number
\* v.
unary_num_value(opcode, v) ==
    CASE opcode = OP_1ADD -> WideToBytes(WideAdd(v, 1))
      [] opcode = OP_1SUB -> WideToBytes(WideAdd(v, -1))
      [] opcode = OP_NEGATE -> NumToBytes(-v)
      [] opcode = OP_ABS -> NumToBytes(IF v < 0 THEN -v ELSE v)
      [] opcode = OP_NOT -> BoolToBytes(v = 0)
      [] opcode = OP_0NOTEQUAL -> BoolToBytes(v # 0)

\* Lines 635-660: OP_1ADD, OP_1SUB, OP_NEGATE, OP_ABS, OP_NOT, OP_0NOTEQUAL.
eval_unary_num(f, opcode, fl) ==
    IF f.stack = <<>> THEN Fail("InvalidStackOperation", f)
    ELSE LET v == Num_from_slice(StackTop(f.stack),
                                 "verify_minimaldata" \in fl, 4)
         IN IF v.err # "" THEN Fail(v.err, Popped(f))
            ELSE Continue([Popped(f) EXCEPT !.stack =
                     Append(@, unary_num_value(opcode, v.value))])

\* checksig_operands with the two pops in the other order.
checksig_operands_signature_first(st) ==
    [pubkey |-> StackTop(StackPop(st)), signature |-> StackTop(st)]

\* Lines 770-771: the public key is popped first, then the signature.
checksig_operands(st) ==
    [pubkey |-> StackTop(st), signature |-> StackTop(StackPop(st))]

\* Lines 772-775 with SignatureVersion::Base: the subscript from begincode
\* is replaced by the whole script without the pushes of the signature.
checksig_script_code(s, bc, signature) ==
    LET from_begincode == subscript(s, bc)
    IN find_and_delete(s, signature)

\* checksig_encoding_error with the errors dropped.
checksig_encoding_error_ignored(signature, pubkey, fl) == ""

\* Lines 777-778: the first encoding error, "" when there is none.
checksig_encoding_error(signature, pubkey, fl) ==
    IF check_signature_encoding(signature, fl) # ""
      THEN check_signature_encoding(signature, fl)
    ELSE check_pubkey_encoding(pubkey, fl)

\* Lines 781-793: what the arm does with the answer of check_signature, g
\* being the frame after the two pops.
checksig_result(g, opcode, checked) ==
    IF opcode = OP_CHECKSIG
      THEN Consulted(
             Continue([g EXCEPT !.stack =
                 Append(@, IF checked.success THEN <<1>> ELSE <<0>>)]),
             checked.calls)
    ELSE IF ~checked.success
      THEN Consulted(Fail("CheckSigVerify", g), checked.calls)
    ELSE Consulted(Continue(g), checked.calls)

\* Lines 777-793: the encoding checks come before check_signature.
checksig_checked(g, opcode, chk, ops, fl, script_code) ==
    IF checksig_encoding_error(ops.signature, ops.pubkey, fl) # ""
      THEN Fail(checksig_encoding_error(ops.signature, ops.pubkey, fl), g)
    ELSE checksig_result(g, opcode,
             check_signature(chk, ops.signature, ops.pubkey, script_code))

\* Lines 769-794: OP_CHECKSIG and OP_CHECKSIGVERIFY.  The public key is
\* popped before the pop of the signature can fail.
eval_checksig(f, opcode, s, fl, chk) ==
    IF f.stack = <<>> THEN Fail("InvalidStackOperation", f)
    ELSE IF Len(f.stack) < 2 THEN Fail("InvalidStackOperation", Popped(f))
    ELSE checksig_checked(Popped(Popped(f)), opcode, chk,
             checksig_operands(f.stack), fl,
             checksig_script_code(s, f.begincode,
                                  checksig_operands(f.stack).signature))

\* pubkey_count_out_of_range with 20 keys refused.
pubkey_count_out_of_range_at_limit(keys_count) ==
    keys_count < 0 \/ keys_count >= MAX_PUBKEYS_PER_MULTISIG

\* Line 797.
pubkey_count_out_of_range(keys_count) ==
    keys_count < 0 \/ keys_count > MAX_PUBKEYS_PER_MULTISIG

\* Line 805.
sig_count_out_of_range(sigs_count, keys_count) ==
    sigs_count < 0 \/ sigs_count > keys_count

\* Lines 802 and 810: the n elements popped from st, the first popped first.
PopN(st, n) == [i \in 1..n |-> st[Len(st) - i + 1]]

\* Lines 812-818: script[begincode..] without the pushes of the signatures.
RECURSIVE multisig_script_code(_, _)
multisig_script_code(sub, sigs) ==
    IF sigs = <<>> THEN sub
    ELSE multisig_script_code(find_and_delete(sub, Head(sigs)), Tail(sigs))

RECURSIVE multisig_walk(_, _, _, _, _, _, _)

\* multisig_walk_advance that goes on while a signature is left.
multisig_walk_advance_while_sigs_left(chk, keys, sigs, k2, s2, fl, script_code, calls) ==
    [multisig_walk(chk, keys, sigs, k2, s2, fl, script_code)
        EXCEPT !.calls = calls \o @]

\* Lines 833-837: the indices after a check, and whether the loop goes on.
multisig_walk_advance(chk, keys, sigs, k2, s2, fl, script_code, calls) ==
    IF Len(sigs) - s2 <= Len(keys) - k2
      THEN [multisig_walk(chk, keys, sigs, k2, s2, fl, script_code)
                EXCEPT !.calls = calls \o @]
    ELSE [err |-> "", panic |-> FALSE, success |-> FALSE, calls |-> calls]

\* multisig_walk_checked that tries a key again after it has matched.
multisig_walk_checked_key_kept(chk, keys, sigs, k, s, fl, script_code, encoding, checked) ==
    IF encoding # ""
      THEN [err |-> encoding, panic |-> FALSE, success |-> FALSE,
            calls |-> <<>>]
    ELSE multisig_walk_advance(chk, keys, sigs,
             IF checked.success THEN k ELSE k + 1,
             IF checked.success THEN s + 1 ELSE s, fl, script_code,
             checked.calls)

\* Lines 828-837: one iteration of the loop, given the encoding error and
\* the answer of check_signature for keys[k] and sigs[s].
multisig_walk_checked(chk, keys, sigs, k, s, fl, script_code, encoding, checked) ==
    IF encoding # ""
      THEN [err |-> encoding, panic |-> FALSE, success |-> FALSE,
            calls |-> <<>>]
    ELSE multisig_walk_advance(chk, keys, sigs, k + 1,
             IF checked.success THEN s + 1 ELSE s, fl, script_code,
             checked.calls)

\* Lines 820-838: the loop from the indices k and s on, entered with success
\* true.  An index past the end of keys is a panic.
multisig_walk(chk, keys, sigs, k, s, fl, script_code) ==
    IF s >= Len(sigs)
      THEN [err |-> "", panic |-> FALSE, success |-> TRUE, calls |-> <<>>]
    ELSE IF k >= Len(keys)
      THEN [err |-> "", panic |-> TRUE, success |-> FALSE, calls |-> <<>>]
    ELSE multisig_walk_checked(chk, keys, sigs, k, s, fl, script_code,
             checksig_encoding_error(sigs[s + 1], keys[k + 1], fl),
             check_signature(chk, sigs[s + 1], keys[k + 1], script_code))

\* nulldummy_violated whatever the flags.
nulldummy_violated_without_flag(dummy, fl) == dummy # <<>>

\* Line 840: the condition on the dummy element that has been popped.
nulldummy_violated(dummy, fl) ==
    dummy # <<>> /\ "verify_nulldummy" \in fl

\* Lines 820-856: the end of the arm, st4 being the stack below the
\* signatures, which is the stack the loop runs on, and w the outcome of
\* the loop.
multisig_result(f, opcode, fl, st4, w) ==
    Consulted(
      IF w.panic THEN Panic([f EXCEPT !.stack = st4])
      ELSE IF w.err # "" THEN Fail(w.err, [f EXCEPT !.stack = st4])
      ELSE IF st4 = <<>>
        THEN Fail("InvalidStackOperation", [f EXCEPT !.stack = st4])
      ELSE IF nulldummy_violated(StackTop(st4), fl)
        THEN Fail("SignatureNullDummy", [f EXCEPT !.stack = StackPop(st4)])
      ELSE IF opcode = OP_CHECKMULTISIG
        THEN Continue([f EXCEPT !.stack =
                 Append(StackPop(st4), IF w.success THEN <<1>> ELSE <<0>>)])
      ELSE IF ~w.success
        THEN Fail("CheckSigVerify", [f EXCEPT !.stack = StackPop(st4)])
      ELSE Continue([f EXCEPT !.stack = StackPop(st4)]),
      w.calls)

\* Lines 804-838: sc is the decoded sigs_count and st3 the stack below it.
\* The pops of the signatures stop at the first that fails, the one on the
\* empty stack.
multisig_sigs(f, opcode, s, fl, chk, keys, sc, st3) ==
    IF sc.err # "" THEN Fail(sc.err, [f EXCEPT !.stack = st3])
    ELSE IF sig_count_out_of_range(sc.value, Len(keys))
      THEN Fail("SigCount", [f EXCEPT !.stack = st3])
    ELSE IF Len(st3) < sc.value
      THEN Fail("InvalidStackOperation", [f EXCEPT !.stack = <<>>])
    ELSE multisig_result(f, opcode, fl, StackDrop(st3, sc.value),
             multisig_walk(chk, keys, PopN(st3, sc.value), 0, 0, fl,
                 multisig_script_code(subscript(s, f.begincode),
                                      PopN(st3, sc.value))))

\* Lines 796-804: kc is the decoded keys_count and st1 the stack below it.
\* The pops of the keys stop at the first that fails, the one on the empty
\* stack, and so does the pop of sigs_count below the last key.
multisig_keys(f, opcode, s, fl, chk, kc, st1) ==
    IF kc.err # "" THEN Fail(kc.err, [f EXCEPT !.stack = st1])
    ELSE IF pubkey_count_out_of_range(kc.value)
      THEN Fail("PubkeyCount", [f EXCEPT !.stack = st1])
    ELSE IF Len(st1) < kc.value + 1
      THEN Fail("InvalidStackOperation", [f EXCEPT !.stack = <<>>])
    ELSE multisig_sigs(f, opcode, s, fl, chk, PopN(st1, kc.value),
             Num_from_slice(StackTop(StackDrop(st1, kc.value)),
                            "verify_minimaldata" \in fl, 4),
             StackPop(StackDrop(st1, kc.value)))

\* Lines 795-857: OP_CHECKMULTISIG and OP_CHECKMULTISIGVERIFY.
eval_checkmultisig(f, opcode, s, fl, chk) ==
    IF f.stack = <<>> THEN Fail("InvalidStackOperation", f)
    ELSE multisig_keys(f, opcode, s, fl, chk,
             Num_from_slice(StackTop(f.stack), "verify_minimaldata" \in fl, 4),
             StackPop(f.stack))

\* Lines 858-865.
eval_reserved(f, executing) ==
    IF executing THEN Fail("DisabledOpcode", f) ELSE Continue(f)

\* Lines 445-450 and 866-869.
eval_disabled(f) == Fail("DisabledOpcode", f)

\* The opcodes whose arms are modelled.
ModelledOpcodes ==
    (0..OP_16) \cup DisabledOpcodes \cup (OP_NOP1..OP_NOP10)
    \cup { OP_NOP, OP_VER, OP_IF, OP_NOTIF, OP_ELSE, OP_ENDIF, OP_VERIFY,
           OP_RETURN, OP_TOALTSTACK, OP_FROMALTSTACK, OP_2DROP, OP_2DUP,
           OP_3DUP, OP_IFDUP, OP_DEPTH, OP_DROP, OP_DUP, OP_SIZE, OP_EQUAL,
           OP_EQUALVERIFY, OP_RESERVED1, OP_RESERVED2, OP_CODESEPARATOR,
           OP_HASH160, OP_CHECKSIG, OP_CHECKSIGVERIFY, OP_CHECKMULTISIG,
           OP_CHECKMULTISIGVERIFY, OP_WITHIN, OP_NIP, OP_OVER, OP_PICK,
           OP_ROLL, OP_ROT, OP_SWAP, OP_TUCK, OP_RIPEMD160, OP_SHA1,
           OP_SHA256, OP_HASH256, OP_2OVER, OP_2ROT, OP_2SWAP,
           OP_NUMEQUALVERIFY }
    \cup BinaryNumOpcodes \cup UnaryNumOpcodes

\* Lines 341-870: the match on the opcode.
eval_opcode(f, instruction, s, pcv, executing, fl, chk, lchk, overflow_checks) ==
    LET opcode == instruction.opcode
    IN CASE opcode <= OP_PUSHDATA4 -> eval_push(f, instruction)
         [] opcode = OP_1NEGATE \/ (OP_1 <= opcode /\ opcode <= OP_16) ->
                eval_small_int(f, opcode, overflow_checks)
         [] opcode \in DisabledOpcodes -> eval_disabled(f)
         [] opcode = OP_NOP -> eval_nop(f)
         [] opcode \in {OP_NOP1} \cup (OP_NOP4..OP_NOP10) ->
                eval_upgradable_nop(f, fl)
         [] opcode = OP_CHECKLOCKTIMEVERIFY ->
                eval_checklocktimeverify(f, fl, lchk)
         [] opcode = OP_CHECKSEQUENCEVERIFY ->
                eval_checksequenceverify(f, fl, lchk)
         [] opcode \in {OP_IF, OP_NOTIF} -> eval_if(f, opcode, executing)
         [] opcode = OP_ELSE -> eval_else(f)
         [] opcode = OP_ENDIF -> eval_endif(f)
         [] opcode = OP_VERIFY -> eval_verify(f)
         [] opcode = OP_RETURN -> eval_return(f)
         [] opcode = OP_TOALTSTACK -> eval_toaltstack(f)
         [] opcode = OP_FROMALTSTACK -> eval_fromaltstack(f)
         [] opcode = OP_2DROP -> eval_drop_n(f, 2)
         [] opcode = OP_2DUP -> eval_dup_n(f, 2)
         [] opcode = OP_3DUP -> eval_dup_n(f, 3)
         [] opcode = OP_IFDUP -> eval_ifdup(f)
         [] opcode = OP_DEPTH -> eval_depth(f)
         [] opcode = OP_DROP -> eval_drop(f)
         [] opcode = OP_DUP -> eval_dup_n(f, 1)
         [] opcode = OP_SIZE -> eval_size(f)
         [] opcode = OP_EQUAL -> eval_equal(f)
         [] opcode = OP_EQUALVERIFY -> eval_equalverify(f)
         [] opcode \in BinaryNumOpcodes -> eval_binary_num(f, opcode, fl)
         [] opcode = OP_WITHIN -> eval_within(f, fl)
         [] opcode = OP_HASH160 -> eval_hash160(f)
         [] opcode \in {OP_RIPEMD160, OP_SHA1, OP_SHA256, OP_HASH256} ->
                eval_hash(f, opcode)
         [] opcode \in {OP_2OVER, OP_2ROT, OP_2SWAP, OP_NIP, OP_OVER, OP_ROT,
                        OP_SWAP, OP_TUCK} ->
                eval_shuffle(f, opcode)
         [] opcode = OP_NUMEQUALVERIFY -> eval_numequalverify(f, fl)
         [] opcode \in {OP_PICK, OP_ROLL} -> eval_pick_roll(f, opcode, fl)
         [] opcode \in UnaryNumOpcodes -> eval_unary_num(f, opcode, fl)
         [] opcode = OP_CODESEPARATOR -> eval_codeseparator(f, pcv)
         [] opcode \in {OP_CHECKSIG, OP_CHECKSIGVERIFY} ->
                eval_checksig(f, opcode, s, fl, chk)
         [] opcode \in {OP_CHECKMULTISIG, OP_CHECKMULTISIGVERIFY} ->
                eval_checkmultisig(f, opcode, s, fl, chk)
         [] opcode \in {OP_RESERVED, OP_VER, OP_RESERVED1, OP_RESERVED2} ->
                eval_reserved(f, executing)

---------------------------------------------------------------------------
(* One iteration of the instruction loop.                                  *)

\* Line 311.
is_executing(ex) == \A i \in 1..Len(ex) : ex[i]

\* push_checks with the check of the size made only when executing.
push_checks_size_when_executing(instruction, executing, fl) ==
    IF ~instruction.has_data THEN ""
    ELSE IF executing /\ Len(instruction.data) > MAX_SCRIPT_ELEMENT_SIZE
      THEN "PushSize"
    ELSE IF executing /\ "verify_minimaldata" \in fl
            /\ ~check_minimal_push(instruction.data, instruction.opcode)
      THEN "Minimaldata"
    ELSE ""

\* push_checks with the two checks in the other order.
push_checks_minimal_first(instruction, executing, fl) ==
    IF ~instruction.has_data THEN ""
    ELSE IF executing /\ "verify_minimaldata" \in fl
            /\ ~check_minimal_push(instruction.data, instruction.opcode)
      THEN "Minimaldata"
    ELSE IF Len(instruction.data) > MAX_SCRIPT_ELEMENT_SIZE THEN "PushSize"
    ELSE ""

\* Lines 315-323: the checks on an instruction that carries data; "" when
\* both pass.
push_checks(instruction, executing, fl) ==
    IF ~instruction.has_data THEN ""
    ELSE IF Len(instruction.data) > MAX_SCRIPT_ELEMENT_SIZE THEN "PushSize"
    ELSE IF executing /\ "verify_minimaldata" \in fl
            /\ ~check_minimal_push(instruction.data, instruction.opcode)
      THEN "Minimaldata"
    ELSE ""

\* Lines 325-326: op_count after the instruction has been decoded.
count_op(opcode, opc) == IF is_countable(opcode) THEN opc + 1 ELSE opc

\* op_count_exceeded with >= for >.
op_count_exceeded_off_by_one(opcode, opc) ==
    is_countable(opcode) /\ opc >= MAX_OPS_PER_SCRIPT

\* Lines 325-329: the limit is checked only right after an increment.
op_count_exceeded(opcode, opc) ==
    is_countable(opcode) /\ opc > MAX_OPS_PER_SCRIPT

\* is_skipped with the conditional family taken to reach OP_RETURN.
is_skipped_family_to_return(opcode, executing) ==
    ~(executing \/ (OP_IF <= opcode /\ opcode <= OP_RETURN))

\* Line 336: the instruction is passed over without being dispatched.
is_skipped(opcode, executing) ==
    ~(executing \/ (OP_IF <= opcode /\ opcode <= OP_ENDIF))

\* stack_size_exceeded without the alt-stack.
stack_size_exceeded_main_only(st, alt) == Len(st) > MAX_STACK_SIZE

\* Line 872.
stack_size_exceeded(st, alt) == Len(st) + Len(alt) > MAX_STACK_SIZE

LoopOutcome(kind, err, f, opc, step, calls) ==
    [kind |-> kind, err |-> err, f |-> f, op_count |-> opc, step |-> step,
     calls |-> calls]

\* Lines 871-876: the end of an iteration whose arm had the outcome o.
loop_after_arm(o, counted, step) ==
    IF o.kind # "next"
      THEN LoopOutcome(o.kind, o.err, o.f, counted, 0, o.calls)
    ELSE IF stack_size_exceeded(o.f.stack, o.f.altstack)
      THEN LoopOutcome("err", "StackSize", o.f, counted, 0, o.calls)
    ELSE LoopOutcome("next", "", o.f, counted, step, o.calls)

\* Lines 315-876: the iteration for an instruction that has been decoded.
loop_on_instruction(instruction, executing, s, pcv, opc, f, fl, chk, lchk, overflow_checks) ==
    IF push_checks(instruction, executing, fl) # ""
      THEN LoopOutcome("err", push_checks(instruction, executing, fl), f,
                       opc, 0, <<>>)
    ELSE IF op_count_exceeded(instruction.opcode,
                              count_op(instruction.opcode, opc))
      THEN LoopOutcome("err", "OpCount", f,
                       count_op(instruction.opcode, opc), 0, <<>>)
    ELSE IF is_disabled(instruction.opcode)
      THEN LoopOutcome("err", "DisabledOpcode", f,
                       count_op(instruction.opcode, opc), 0, <<>>)
    ELSE IF is_skipped(instruction.opcode, executing)
      THEN LoopOutcome("next", "", f, count_op(instruction.opcode, opc),
                       instruction.step, <<>>)
    ELSE loop_after_arm(
             eval_opcode(f, instruction, s, pcv, executing, fl, chk, lchk,
                         overflow_checks),
             count_op(instruction.opcode, opc), instruction.step)

\* Lines 311-876.
loop_body(s, pcv, opc, f, fl, chk, lchk, overflow_checks) ==
    IF ~get_instruction(s, pcv).ok
      THEN LoopOutcome("err", "BadOpcode", f, opc, 0, <<>>)
    ELSE loop_on_instruction(get_instruction(s, pcv),
                             is_executing(f.exec_stack), s, pcv, opc, f, fl,
                             chk, lchk, overflow_checks)

\* Lines 879-888: the code after the loop.
termination(st, ex) ==
    IF ex # <<>> THEN "Err(UnbalancedConditional)"
    ELSE IF st # <<>> /\ cast_to_bool(StackTop(st)) THEN "Ok(true)"
    ELSE "Ok(false)"

ErrorResult(e) == "Err(" \o e \o ")"

\* The results Ok(true) and Ok(false) of eval_script.
OkResults == { "Ok(true)", "Ok(false)" }

---------------------------------------------------------------------------
(* The inputs.                                                             *)

SeqsUpTo(S, n) == UNION { [1..k -> S] : k \in 0..n }

\* Scripts that exercise the conditional opcodes, from an empty stack.
ControlAlphabet ==
    { <<OP_0>>, <<OP_1>>, <<OP_1NEGATE>>, <<OP_NOP>>, <<OP_IF>>, <<OP_NOTIF>>,
      <<OP_ELSE>>, <<OP_ENDIF>>, <<OP_CAT>> }

ControlScripts == { Flatten(cs) : cs \in SeqsUpTo(ControlAlphabet, MaxInstr) }

\* Byte strings on an initial stack: the false ones (empty, zero, negative
\* zero in one and two bytes) and two true ones.
Elements == { <<>>, <<0>>, <<128>>, <<0, 128>>, <<128, 0>>, <<1>> }

InitStacks == SeqsUpTo(Elements, MaxInitStack)

\* Scripts that read the values of an initial stack.
ValueAlphabet ==
    { <<OP_0>>, <<OP_1>>, <<OP_PUSHBYTES_1, 128>>, <<OP_NOP>>, <<OP_IF>>,
      <<OP_NOTIF>>, <<OP_ELSE>>, <<OP_ENDIF>>, <<OP_VERIFY>>, <<OP_DUP>>,
      <<OP_IFDUP>>, <<OP_DROP>>, <<OP_TOALTSTACK>>, <<OP_FROMALTSTACK>>,
      <<OP_RESERVED>>, <<OP_NOP1>> }

ValueScripts == { Flatten(cs) : cs \in SeqsUpTo(ValueAlphabet, MaxValueInstr) }

\* Scripts that grow a stack that starts near the limit.
GrowAlphabet ==
    { <<OP_1>>, <<OP_DUP>>, <<OP_2DUP>>, <<OP_3DUP>>, <<OP_DROP>>,
      <<OP_TOALTSTACK>>, <<OP_FROMALTSTACK>>, <<OP_IF>>, <<OP_NOP>> }

GrowScripts == { Flatten(cs) : cs \in SeqsUpTo(GrowAlphabet, MaxValueInstr) }

BigStacks ==
    { Repeat(<<1>>, n) : n \in (MAX_STACK_SIZE - 2)..MAX_STACK_SIZE }

\* A push of n bytes by OP_PUSHDATA2 and by OP_PUSHDATA4.
PushData2(n) == <<OP_PUSHDATA2, n % 256, n \div 256>> \o Repeat(7, n)
PushData4(n) == <<OP_PUSHDATA4, n % 256, n \div 256, 0, 0>> \o Repeat(7, n)

\* Scripts at the limits on the opcode count and the element size.
LimitScripts ==
    { Repeat(OP_NOP1, MAX_OPS_PER_SCRIPT + 1),
      Repeat(OP_NOP1, MAX_OPS_PER_SCRIPT),
      Repeat(OP_1, MAX_OPS_PER_SCRIPT + 1),
      <<OP_0, OP_IF>> \o Repeat(OP_DUP, MAX_OPS_PER_SCRIPT),
      <<OP_0, OP_IF>> \o Repeat(OP_DUP, MAX_OPS_PER_SCRIPT - 2) \o <<OP_ENDIF>>,
      PushData2(MAX_SCRIPT_ELEMENT_SIZE),
      PushData2(MAX_SCRIPT_ELEMENT_SIZE + 1),
      PushData4(MAX_SCRIPT_ELEMENT_SIZE + 1),
      <<OP_0, OP_IF>> \o PushData2(MAX_SCRIPT_ELEMENT_SIZE + 1),
      <<OP_0, OP_IF>> \o PushData4(MAX_SCRIPT_ELEMENT_SIZE + 1) }

\* A push of n bytes by OP_PUSHDATA1.
PushData1(n) == <<OP_PUSHDATA1, n>> \o Repeat(7, n)

\* Pushes that a shorter opcode could have made, and pushes made by the
\* shortest opcode.
Pushes ==
    { <<OP_PUSHBYTES_1, 5>>, <<OP_PUSHBYTES_1, 16>>, <<OP_PUSHBYTES_1, 129>>,
      <<OP_PUSHDATA1, 0>>, PushData1(2), PushData1(75), PushData2(80),
      PushData2(255), PushData4(300),
      <<OP_0>>, <<OP_1>>, <<OP_PUSHBYTES_1, 0>>, <<OP_PUSHBYTES_1, 17>>,
      <<OP_PUSHBYTES_2, 1, 0>>, PushData1(76), PushData1(255),
      PushData2(256) }

\* A push at the top level, in a branch that is taken and in one that is
\* not.
PushScripts ==
    { prefix \o push \o suffix :
        prefix \in { <<>>, <<OP_1, OP_IF>>, <<OP_0, OP_IF>> },
        push \in Pushes,
        suffix \in { <<>>, <<OP_ENDIF, OP_1>> } }

\* Signatures: one of valid encoding, low S and hash type ALL; one that is
\* not DER; one of valid encoding whose S is above half the order; one of
\* valid encoding and undefined hash type; one whose R carries the zero byte
\* that keeps it positive; the empty one.
SigGood == <<48, 6, 2, 1, 1, 2, 1, 1, 1>>
SigNotDer == <<1, 2, 3>>
SigHighS == <<48, 37, 2, 1, 1, 2, 32, 127>> \o Repeat(255, 31) \o <<1>>
SigBadHashtype == <<48, 6, 2, 1, 1, 2, 1, 1, 4>>
SigPadded == <<48, 7, 2, 2, 0, 128, 2, 1, 1, 1>>
SigEmpty == <<>>

Signatures ==
    { SigGood, SigNotDer, SigHighS, SigBadHashtype, SigPadded, SigEmpty }

\* Public keys: a compressed one, one of 65 bytes with the hybrid prefix
\* (it parses, and is not of a standard type), and one that does not parse.
KeyGood == <<2>> \o Repeat(1, 32)
KeyOther == <<3>> \o Repeat(1, 32)
KeyHybrid == <<6>> \o Repeat(1, 64)
KeyNoKey == <<1>>

PublicKeys == { KeyGood, KeyHybrid, KeyNoKey }

\* Checkers: one that rejects everything, one that accepts every signature
\* of the model for every key, one that accepts SigGood for KeyGood only.
AcceptAll ==
    { <<SubSeq(sig, 1, Len(sig) - 1), key>> :
        sig \in Signatures \ {SigEmpty},
        key \in PublicKeys \cup {KeyOther} }

Checkers ==
    { {}, AcceptAll, { <<SubSeq(SigGood, 1, Len(SigGood) - 1), KeyGood>> } }

\* Stacks for the signature opcodes: a signature below a public key, and
\* stacks that are too short.
SigStacks ==
    { <<sig, key>> : sig \in Signatures, key \in PublicKeys }
    \cup { <<>>, <<KeyGood>> }

SigScripts ==
    { <<OP_CHECKSIG>>,
      <<OP_CHECKSIGVERIFY>>,
      <<OP_CHECKSIGVERIFY, OP_1>>,
      <<OP_CODESEPARATOR, OP_CHECKSIG>>,
      <<OP_NOP1, OP_CODESEPARATOR, OP_NOP1, OP_CHECKSIGVERIFY>>,
      PushBytes(SigGood) \o <<OP_DROP, OP_CHECKSIG>>,
      PushBytes(SigGood) \o <<OP_DROP, OP_CODESEPARATOR>>
          \o PushBytes(SigGood) \o <<OP_DROP, OP_CHECKSIG>> }

SigFlags ==
    { {}, {"verify_dersig"}, {"verify_low_s"}, {"verify_strictenc"},
      {"verify_dersig", "verify_low_s", "verify_strictenc"} }

\* Stacks for OP_CHECKMULTISIG: a dummy, nsigs signatures, the element
\* sigs_count, nkeys keys and the element keys_count on top.
MultisigStack(nsigs, sigs_count, nkeys, keys_count) ==
    <<SigEmpty>>
    \o [i \in 1..nsigs |-> SigGood]
    \o <<NumToBytes(sigs_count)>>
    \o [i \in 1..nkeys |-> IF i % 2 = 1 THEN KeyGood ELSE KeyOther]
    \o <<NumToBytes(keys_count)>>

\* The top elements of st, for every number of them.
TopsOf(st) == { SubSeq(st, Len(st) - n + 1, Len(st)) : n \in 0..Len(st) }

Clip(n) == IF n < 0 THEN 0 ELSE n

\* The counts around the limits: keys_count below 0, at 0, small, at 20 and
\* above; sigs_count below 0, up to keys_count and above it.
MultisigCounts ==
    { <<sc, kc>> : sc \in -1..3, kc \in {-1, 0, 1, 2} }
    \cup { <<0, 20>>, <<20, 20>>, <<21, 20>>, <<0, 21>>, <<1, 21>> }

MultisigStacks ==
    UNION { TopsOf(MultisigStack(Clip(c[1]), c[1], Clip(c[2]), c[2])) :
              c \in MultisigCounts }

MultisigScripts == { <<OP_CHECKMULTISIG>>, <<OP_CHECKMULTISIGVERIFY>> }

\* Stacks for the dummy element of OP_CHECKMULTISIG: an empty and three
\* non-empty dummies below one signature and one key, below no signature
\* and no key, and on top of another element.
Dummies == { <<>>, <<0>>, <<1>>, SigGood }

DummyStacks ==
    { prefix \o <<d>> \o rest :
        prefix \in { <<>>, << <<7>> >> },
        d \in Dummies,
        rest \in { <<SigGood, <<1>>, KeyGood, <<1>>>>,
                   <<SigGood, <<1>>, KeyOther, <<1>>>>,
                   << <<>>, KeyGood, <<1>> >>,
                   << <<>>, <<>> >> } }

\* preamble with the limit one byte higher.
preamble_off_by_one(s) ==
    IF Len(s) > MAX_SCRIPT_SIZE + 1 THEN "Err(ScriptSize)" ELSE "running"

\* Lines 300-302: a script that is too long is rejected before the loop.
preamble(s) ==
    IF Len(s) > MAX_SCRIPT_SIZE THEN "Err(ScriptSize)" ELSE "running"

\* Numbers for OP_CHECKLOCKTIMEVERIFY and OP_CHECKSEQUENCEVERIFY: 0, 1,
\* 2^31 - 1, 2^31, 2^31 + 1, 2^32 and 2^39 - 1.
LockValues ==
    { WideNum(FALSE, 0, 0), WideNum(FALSE, 0, 1),
      WideNum(FALSE, 0, MaxInt31), WideNum(FALSE, 1, 0),
      WideNum(FALSE, 1, 1), WideNum(FALSE, 2, 0),
      WideNum(FALSE, 255, MaxInt31) }

\* Their encodings, those of -1 and of -2^31, an encoding of 1 that is not
\* minimal and one of six bytes.
LockElements ==
    { WideToBytes(n) : n \in LockValues }
    \cup { <<129>>, <<0, 0, 0, 128, 128>>, <<1, 0>>, <<1, 0, 0, 0, 0, 0>> }

LockStacks ==
    { <<>> } \cup { <<e>> : e \in LockElements }
    \cup { << <<7>>, e >> : e \in LockElements }

\* Checkers that accept no number, every number, and some numbers.
NoTimes == [lock_time |-> {}, sequence |-> {}]
AllTimes == [lock_time |-> LockValues, sequence |-> LockValues]
SomeTimes ==
    [lock_time |-> { WideNum(FALSE, 0, 0), WideNum(FALSE, 1, 0) },
     sequence |-> { WideNum(FALSE, 0, 1), WideNum(FALSE, 1, 1) }]

LockCheckers == { NoTimes, AllTimes, SomeTimes }

LockScripts ==
    { <<OP_CHECKLOCKTIMEVERIFY>>, <<OP_CHECKSEQUENCEVERIFY>>, <<OP_NOP4>> }

LockFlags ==
    SUBSET { "verify_clocktimeverify", "verify_chechsequenceverify",
             "verify_discourage_upgradable_nops" }
    \cup { {"verify_clocktimeverify", "verify_chechsequenceverify",
            "verify_minimaldata"} }

\* Operands of the numeric opcodes: the ends of the 4-byte range, the
\* numbers around zero, an encoding of 1 that is not minimal and a number
\* of five bytes.
NumValues == { -MaxInt31, -1, 0, 1, MaxInt31 }

NumElements ==
    { NumToBytes(n) : n \in NumValues } \cup { <<1, 0>>, <<0, 0, 0, 0, 1>> }

NumStacks == SeqsUpTo(NumElements, 3)

NumScripts ==
    { <<op>> : op \in BinaryNumOpcodes
                      \cup {OP_WITHIN, OP_EQUAL, OP_EQUALVERIFY,
                            OP_NUMEQUALVERIFY} }

\* OP_1NEGATE and OP_1 .. OP_16.
SmallIntScripts == { <<op>> : op \in {OP_1NEGATE} \cup (OP_1..OP_16) }

\* Signatures for the DER check: of 73 bytes with R and S both carrying the
\* zero byte that keeps them positive; with S alone carrying it; with R
\* carrying a zero byte it does not need.
SigLong ==
    <<48, 70, 2, 33, 0, 128>> \o Repeat(1, 31) \o <<2, 33, 0, 128>>
    \o Repeat(1, 31) \o <<1>>
SigPaddedS == <<48, 7, 2, 1, 1, 2, 2, 0, 128, 1>>
SigOverPadded == <<48, 7, 2, 2, 0, 1, 2, 1, 1, 1>>

DerSignatures ==
    { SigGood, SigPadded, SigLong, SigPaddedS, SigOverPadded, SigNotDer }

DerStacks == { <<sig, KeyGood>> : sig \in DerSignatures }

\* Opcodes that consume elements of the stack, each alone in a script, on
\* stacks of zero to three elements, some of which are not numbers.
ConsumingOpcodes ==
    UnaryNumOpcodes
    \cup { OP_SIZE, OP_RIPEMD160, OP_SHA1, OP_SHA256, OP_HASH160, OP_HASH256,
           OP_NIP, OP_OVER, OP_ROT, OP_SWAP, OP_TUCK, OP_DUP, OP_2DUP,
           OP_3DUP, OP_DROP, OP_2DROP, OP_2OVER, OP_2ROT, OP_2SWAP }

ConsumingScripts == { <<op>> : op \in ConsumingOpcodes }

ShortStacks ==
    SeqsUpTo({ <<>>, <<1>>, <<129>> }, 3) \cup SeqsUpTo(NumElements, 1)
    \cup { SubSeq(<< <<1>>, <<2>>, <<3>>, <<4>>, <<5>>, <<6>>, <<7>> >>, 1, n) :
             n \in 4..7 }

\* Stacks for OP_PICK and OP_ROLL: up to three distinct elements below a
\* depth of -1, 0, 1, 2 or 3, or below an element that is not a number.
PickDepths ==
    { <<>>, <<1>>, <<2>>, <<3>>, <<129>>, <<1, 0>>, <<0, 0, 0, 0, 1>> }

PickStacks ==
    { <<>> }
    \cup { SubSeq(<< <<7>>, <<8>>, <<9>> >>, 1, n) \o <<d>> :
             n \in 0..3, d \in PickDepths }
    \cup { << <<7>>, <<7>>, <<8>>, d >> : d \in PickDepths }

PickScripts == { <<OP_PICK>>, <<OP_ROLL>> }

\* One instruction in a branch that is not executed, after a separator that
\* is, with an element on the stack and one on the alt-stack: every opcode
\* of the model, the pushes with their data.
SkippedInstructions ==
    { <<op>> : op \in (OP_1NEGATE..OP_NOP10) \cap ModelledOpcodes }
    \cup { <<OP_0>>, <<OP_PUSHBYTES_1, 5>>, <<OP_PUSHBYTES_2, 1, 0>>,
           PushData1(2), PushData2(MAX_SCRIPT_ELEMENT_SIZE + 1), <<OP_PUSHBYTES_2, 1>>,
           <<OP_PUSHDATA1>>, <<186>> }

SkipScripts ==
    { prefix \o skipped \o suffix :
        prefix \in { <<OP_CODESEPARATOR, OP_DUP, OP_TOALTSTACK, OP_0, OP_IF>>,
                     <<OP_1, OP_IF, OP_0, OP_IF>>,
                     <<OP_1, OP_NOTIF>>,
                     <<OP_0, OP_IF, OP_ELSE, OP_ELSE>> },
        skipped \in SkippedInstructions,
        suffix \in { <<>>, <<OP_ENDIF, OP_CHECKSIG>> } }

SkipStacks == { <<SigGood, KeyGood>>, << <<0, 0, 0, 0, 1>> >> }

\* Stacks for the walk of OP_CHECKMULTISIG: an empty dummy, up to two
\* signatures out of two, their count, up to three keys out of two, their
\* count; checkers that accept any set of the four pairs.
WalkSignatures == SeqsUpTo({ SigGood, SigHighS }, 2)

WalkKeys == SeqsUpTo({ KeyGood, KeyOther }, 3)

WalkStacks ==
    { << <<>> >> \o sigs \o <<NumToBytes(Len(sigs))>> \o keys
      \o <<NumToBytes(Len(keys))>> :
        sigs \in WalkSignatures,
        keys \in { ks \in WalkKeys : Len(ks) >= 1 } }

WalkCheckers ==
    SUBSET { <<SubSeq(sig, 1, Len(sig) - 1), key>> :
               sig \in { SigGood, SigHighS }, key \in { KeyGood, KeyOther } }

\* The arguments of one call: the script, the flags and the stack handed in.
Inputs ==
    \/ /\ lock_checker = NoTimes
       /\ \/ /\ script \in ControlScripts /\ flags = {} /\ stack = <<>>
                /\ checker = {}
             \/ /\ script \in ValueScripts /\ flags = {} /\ stack \in InitStacks
                /\ checker = {}
             \/ /\ script \in GrowScripts /\ flags = {} /\ stack \in BigStacks
                /\ checker = {}
             \/ /\ script \in LimitScripts
                /\ flags \in { {}, {"verify_minimaldata"} }
                /\ stack = <<>>
                /\ checker = {}
             \/ /\ script \in PushScripts
                /\ flags \in { {}, {"verify_minimaldata"} }
                /\ stack = <<>>
                /\ checker = {}
             \/ /\ script \in SigScripts
                /\ flags \in SigFlags
                /\ stack \in SigStacks
                /\ checker \in Checkers
             \/ /\ script \in MultisigScripts
                /\ flags = {}
                /\ stack \in MultisigStacks
                /\ checker \in Checkers
    \/ /\ script \in MultisigScripts
       /\ flags \in { {}, {"verify_nulldummy"} }
       /\ stack \in DummyStacks
       /\ checker \in Checkers
       /\ lock_checker = NoTimes
    \/ /\ script \in LockScripts
       /\ flags \in LockFlags
       /\ stack \in LockStacks
       /\ checker = {}
       /\ lock_checker \in LockCheckers
    \/ /\ script \in NumScripts
       /\ flags \in { {}, {"verify_minimaldata"} }
       /\ stack \in NumStacks
       /\ checker = {}
       /\ lock_checker = NoTimes
    \/ /\ script \in SmallIntScripts
       /\ flags = {}
       /\ stack \in { <<>>, << <<7>> >> }
       /\ checker = {}
       /\ lock_checker = NoTimes
    \/ /\ script \in { <<OP_CHECKSIG>>, <<OP_CHECKSIGVERIFY>> }
       /\ flags \in { {"verify_dersig"}, {"verify_strictenc"} }
       /\ stack \in DerStacks
       /\ checker = AcceptAll
       /\ lock_checker = NoTimes
    \/ /\ script \in ConsumingScripts
       /\ flags \in { {}, {"verify_minimaldata"} }
       /\ stack \in ShortStacks
       /\ checker = {}
       /\ lock_checker = NoTimes
    \/ /\ script \in SkipScripts
       /\ flags \in { {}, {"verify_minimaldata"} }
       /\ stack \in SkipStacks
       /\ checker = AcceptAll
       /\ lock_checker = NoTimes
    \/ /\ script \in MultisigScripts
       /\ flags = {}
       /\ stack \in WalkStacks
       /\ checker \in WalkCheckers
       /\ lock_checker = NoTimes
    \/ /\ script \in PickScripts
       /\ flags \in { {}, {"verify_minimaldata"} }
       /\ stack \in PickStacks
       /\ checker = {}
       /\ lock_checker = NoTimes

\* Lines 304-308.
Init ==
    /\ Inputs
    /\ altstack = <<>>
    /\ exec_stack = <<>>
    /\ pc = 0
    /\ op_count = 0
    /\ begincode = 0
    /\ broke = FALSE
    /\ result = preamble(script)
    /\ checker_calls = <<>>
    /\ phase = "eval_script"
    /\ script_sig = <<>>
    /\ script_pubkey = <<>>
    /\ stack_copy = <<>>
    /\ verify_result = "none"

---------------------------------------------------------------------------
(* The actions.                                                            *)

\* while pc < script.len() { ... }: one iteration.
Step ==
    /\ result = "running" /\ ~broke /\ pc < Len(script)
    /\ \E overflow_checks \in BOOLEAN :
         \E o \in { loop_body(script, pc, op_count,
                              Frame(stack, altstack, exec_stack, begincode),
                              flags, checker, lock_checker,
                              overflow_checks) } :
            /\ stack' = o.f.stack
            /\ altstack' = o.f.altstack
            /\ exec_stack' = o.f.exec_stack
            /\ begincode' = o.f.begincode
            /\ op_count' = o.op_count
            /\ pc' = pc + o.step
            /\ broke' = (o.kind = "break")
            /\ result' = CASE o.kind = "err" -> ErrorResult(o.err)
                           [] o.kind = "panic" -> "panic"
                           [] OTHER -> "running"
            /\ checker_calls' = checker_calls \o o.calls
    /\ UNCHANGED <<script, flags, checker, lock_checker, verify_vars>>

\* The loop has ended (its condition is false, or by break): lines 879-888.
Finish ==
    /\ result = "running" /\ (broke \/ pc >= Len(script))
    /\ result' = termination(stack, exec_stack)
    /\ UNCHANGED <<script, flags, stack, altstack, exec_stack, pc, op_count,
                   begincode, broke, checker, checker_calls, lock_checker,
                   verify_vars>>

Next == Step \/ Finish

Spec == Init /\ [][Next]_vars

---------------------------------------------------------------------------
(* verify_script (lines 232-291).                                          *)

\* Instructions in a generated script_sig.
MaxSigInstr == 3

\* Redeem scripts: one that is true, one that is false, one whose result is
\* the element its stack holds below the top.
RedeemTrue == <<OP_1>>
RedeemFalse == <<OP_0>>
RedeemDrop == <<OP_DROP>>

\* The pay-to-script-hash script for a redeem script.
PayToScriptHash(redeem) ==
    <<OP_HASH160, 20>> \o dhash160(redeem) \o <<OP_EQUAL>>

\* One push of n - 3 bytes: a script of n bytes.
ScriptOfSize(n) == PushData2(n - 3)

VerifySigAlphabet ==
    { <<OP_0>>, <<OP_1>>, <<OP_DUP>>, PushBytes(RedeemTrue),
      PushBytes(RedeemDrop) }

VerifySigs ==
    { Flatten(cs) : cs \in SeqsUpTo(VerifySigAlphabet, MaxSigInstr) }

VerifyPubkeys ==
    { PayToScriptHash(RedeemTrue), PayToScriptHash(RedeemDrop),
      PayToScriptHash(RedeemFalse), <<OP_1>>, <<OP_DROP>>, <<>>,
      <<OP_TOALTSTACK, OP_1>> }

VerifyFlags ==
    { {}, {"verify_p2sh"}, {"verify_sigpushonly"},
      {"verify_p2sh", "verify_cleanstack", "verify_witness"},
      {"verify_cleanstack", "verify_witness"},
      {"verify_p2sh", "verify_cleanstack"} }

\* Scripts at the limit on the script size, as script_sig and as
\* script_pubkey.
VerifyLimitInputs ==
    \/ /\ script_sig \in { ScriptOfSize(MAX_SCRIPT_SIZE),
                           ScriptOfSize(MAX_SCRIPT_SIZE + 1) }
       /\ script_pubkey = <<OP_1>>
    \/ /\ script_sig \in { <<>>, <<OP_1>> }
       /\ script_pubkey \in { ScriptOfSize(MAX_SCRIPT_SIZE),
                              ScriptOfSize(MAX_SCRIPT_SIZE + 1) }

\* Scripts that move elements to the alt-stack and back: script_sig leaves
\* elements on its alt-stack, script_pubkey and the redeem script ask for
\* them.
RedeemFromAlt == <<OP_FROMALTSTACK>>

AltSigs ==
    { <<OP_1, OP_TOALTSTACK>>,
      <<OP_1, OP_2, OP_TOALTSTACK>>,
      <<OP_1, OP_2, OP_TOALTSTACK, OP_TOALTSTACK, OP_FROMALTSTACK,
        OP_FROMALTSTACK>>,
      <<OP_1, OP_2, OP_TOALTSTACK, OP_TOALTSTACK, OP_FROMALTSTACK>>,
      <<OP_1, OP_FROMALTSTACK>>,
      <<OP_1, OP_2>>,
      PushBytes(RedeemFromAlt),
      <<OP_1>> \o PushBytes(RedeemFromAlt) }

AltPubkeys ==
    { <<OP_FROMALTSTACK>>,
      <<OP_1, OP_FROMALTSTACK>>,
      <<OP_DUP, OP_TOALTSTACK, OP_TOALTSTACK, OP_FROMALTSTACK,
        OP_FROMALTSTACK>>,
      <<OP_1>>,
      PayToScriptHash(RedeemFromAlt) }

\* The arguments of one call of verify_script.
VerifyInputs ==
    \/ /\ script_sig \in VerifySigs
       /\ script_pubkey \in VerifyPubkeys
       /\ flags \in VerifyFlags
    \/ /\ VerifyLimitInputs
       /\ flags \in { {}, {"verify_p2sh"} }
    \/ /\ script_sig \in AltSigs
       /\ script_pubkey \in AltPubkeys
       /\ flags \in { {}, {"verify_p2sh"} }

VerifyInit ==
    /\ VerifyInputs
    /\ checker = {}
    /\ lock_checker = NoTimes
    /\ checker_calls = <<>>
    /\ phase = "start"
    /\ verify_result = "running"
    /\ stack = <<>>
    /\ stack_copy = <<>>
    /\ script = <<>>
    /\ altstack = <<>>
    /\ exec_stack = <<>>
    /\ pc = 0
    /\ op_count = 0
    /\ begincode = 0
    /\ broke = FALSE
    /\ result = "idle"

\* CallEval that leaves the alt-stack as the call before left it.
CallEval_altstack_kept(s, st) ==
    /\ script' = s
    /\ stack' = st
    /\ altstack' = altstack
    /\ exec_stack' = <<>>
    /\ pc' = 0
    /\ op_count' = 0
    /\ begincode' = 0
    /\ broke' = FALSE
    /\ result' = preamble(s)

\* eval_script(&mut st, s, ...) is entered: lines 300-308.
CallEval(s, st) ==
    /\ script' = s
    /\ stack' = st
    /\ altstack' = <<>>
    /\ exec_stack' = <<>>
    /\ pc' = 0
    /\ op_count' = 0
    /\ begincode' = 0
    /\ broke' = FALSE
    /\ result' = preamble(s)

\* verify_script returns r.
Return(r) ==
    /\ verify_result' = r
    /\ phase' = "done"
    /\ UNCHANGED <<script, stack, altstack, exec_stack, pc, op_count,
                   begincode, broke, result, stack_copy>>

\* conclude without the two assertions.
conclude_without_asserts(st, fl) ==
    IF "verify_cleanstack" \in fl /\ Len(st) # 1 THEN "Err(Cleanstack)"
    ELSE "Ok(())"

\* Lines 280-290: the result once the scripts have been evaluated, st being
\* the final stack.
conclude(st, fl) ==
    IF "verify_cleanstack" \in fl
      THEN IF "verify_p2sh" \notin fl THEN "panic"
           ELSE IF "verify_witness" \notin fl THEN "panic"
           ELSE IF Len(st) # 1 THEN "Err(Cleanstack)"
           ELSE "Ok(())"
      ELSE "Ok(())"

\* eval_failed that takes Ok(false) for a failure as well.
eval_failed_or_false(r) == r # "Ok(true)"

\* try!(eval_script(..)): the result r is an error (or a panic), which
\* verify_script passes on.
eval_failed(r) == r \notin OkResults

\* Line 238.
sigpushonly_violated(sig, fl) ==
    "verify_sigpushonly" \in fl /\ ~is_push_only(sig)

\* p2sh_applies whatever the form of script_pubkey.
p2sh_applies_any_pubkey(pubkey, fl) == "verify_p2sh" \in fl

\* Line 257.
p2sh_applies(pubkey, fl) ==
    "verify_p2sh" \in fl /\ is_pay_to_script_hash(pubkey)

\* p2sh_sig_rejected only under verify_sigpushonly.
p2sh_sig_rejected_by_flag(sig, fl) ==
    "verify_sigpushonly" \in fl /\ ~is_push_only(sig)

\* Lines 258-260.
p2sh_sig_rejected(sig, fl) == ~is_push_only(sig)

\* swapped_stack without the swap.
swapped_stack_without_swap(st, copy) == st

\* Line 262: after the swap the stack is the copy taken after script_sig.
swapped_stack(st, copy) == copy

\* Lines 238-245.
VerifyStart ==
    /\ phase = "start"
    /\ IF sigpushonly_violated(script_sig, flags)
         THEN Return("Err(SignaturePushOnly)")
         ELSE /\ CallEval(script_sig, stack)
              /\ phase' = "script_sig"
              /\ UNCHANGED <<stack_copy, verify_result>>
    /\ UNCHANGED <<flags, checker, checker_calls, lock_checker, script_sig,
                   script_pubkey>>

\* Lines 245-251: script_sig has been evaluated.
VerifyAfterSig ==
    /\ phase = "script_sig"
    /\ result # "running"
    /\ IF eval_failed(result) THEN Return(result)
       ELSE /\ stack_copy' = IF "verify_p2sh" \in flags THEN stack
                             ELSE stack_copy
            /\ CallEval(script_pubkey, stack)
            /\ phase' = "script_pubkey"
            /\ UNCHANGED verify_result
    /\ UNCHANGED <<flags, checker, checker_calls, lock_checker, script_sig,
                   script_pubkey>>

\* Lines 251-271 and, without pay-to-script-hash, 280-290: script_pubkey
\* has been evaluated.
VerifyAfterPubkey ==
    /\ phase = "script_pubkey"
    /\ result # "running"
    /\ IF eval_failed(result) THEN Return(result)
       ELSE IF result = "Ok(false)" THEN Return("Err(EvalFalse)")
       ELSE IF p2sh_applies(script_pubkey, flags)
         THEN IF p2sh_sig_rejected(script_sig, flags)
                THEN Return("Err(SignaturePushOnly)")
              ELSE IF swapped_stack(stack, stack_copy) = <<>>
                THEN /\ verify_result' = "panic"
                     /\ phase' = "done"
                     /\ stack' = swapped_stack(stack, stack_copy)
                     /\ stack_copy' = stack
                     /\ UNCHANGED <<script, altstack, exec_stack, pc,
                                    op_count, begincode, broke, result>>
              ELSE /\ stack_copy' = stack
                   /\ CallEval(StackTop(swapped_stack(stack, stack_copy)),
                               StackPop(swapped_stack(stack, stack_copy)))
                   /\ phase' = "redeem"
                   /\ UNCHANGED verify_result
       ELSE Return(conclude(stack, flags))
    /\ UNCHANGED <<flags, checker, checker_calls, lock_checker, script_sig,
                   script_pubkey>>

\* Lines 271-290: the redeem script has been evaluated.
VerifyAfterRedeem ==
    /\ phase = "redeem"
    /\ result # "running"
    /\ IF eval_failed(result) THEN Return(result)
       ELSE IF result = "Ok(false)" THEN Return("Err(EvalFalse)")
       ELSE Return(conclude(stack, flags))
    /\ UNCHANGED <<flags, checker, checker_calls, lock_checker, script_sig,
                   script_pubkey>>

VerifyNext ==
    \/ VerifyStart
    \/ Step
    \/ Finish
    \/ VerifyAfterSig
    \/ VerifyAfterPubkey
    \/ VerifyAfterRedeem

VerifySpec == VerifyInit /\ [][VerifyNext]_vars

---------------------------------------------------------------------------
(* Vocabulary of the properties.                                           *)

Running == result = "running"

ErrorKinds ==
    { "BadOpcode", "PushSize", "Minimaldata", "OpCount", "DisabledOpcode",
      "StackSize", "UnbalancedConditional", "Verify", "ReturnOpcode",
      "InvalidStackOperation", "InvalidAltstackOperation", "EqualVerify",
      "DiscourageUpgradableNops", "ScriptSize", "NumberOverflow",
      "NumberNotMinimallyEncoded", "NumEqualVerify", "CheckSigVerify",
      "PubkeyCount", "SigCount", "SignatureDer", "SignatureHashtype",
      "SignatureHighS", "SignatureNullDummy", "PubkeyType",
      "NegativeLocktime", "UnsatisfiedLocktime", "EvalFalse", "Cleanstack",
      "SignaturePushOnly" }

ErrorResults == { ErrorResult(e) : e \in ErrorKinds }

\* The loop is about to decode the instruction at pc.
AtInstruction == Running /\ ~broke /\ pc < Len(script)

\* The instruction the loop is at; only read where pc < Len(script).
Current == get_instruction(script, pc)

\* The loop is about to decode opcode op, and the checks that come before
\* the dispatch (lines 312-334) let it through.
AboutToDispatch(op) ==
    /\ AtInstruction
    /\ Current.ok
    /\ Current.opcode = op
    /\ count_op(op, op_count) <= MAX_OPS_PER_SCRIPT

\* The number of countable opcodes among the instructions of s that start
\* before offset stop.
CountableBefore(s, stop) ==
    LET I == InstructionStarts(s)
    IN Cardinality({ j \in 1..Len(I) : I[j] < stop /\ is_countable(s[I[j] + 1]) })

\* The offset of the first always-disabled opcode among the instructions of
\* s; -1 when there is none.
FirstDisabled(s) ==
    LET I == InstructionStarts(s)
        D == { j \in 1..Len(I) : s[I[j] + 1] \in DisabledOpcodes }
    IN IF D = {} THEN -1 ELSE I[CHOOSE j \in D : \A k \in D : j <= k]

\* <<c, o>> for the opcodes ops[lo..hi]: c OP_ENDIF that close nothing
\* opened in the range, o OP_IF/OP_NOTIF that nothing in the range closes.
RECURSIVE Brackets(_, _, _)
Brackets(ops, lo, hi) ==
    IF lo > hi THEN <<0, 0>>
    ELSE IF lo = hi
      THEN IF ops[lo] \in {OP_IF, OP_NOTIF} THEN <<0, 1>>
           ELSE IF ops[lo] = OP_ENDIF THEN <<1, 0>>
           ELSE <<0, 0>>
    ELSE LET mid == (lo + hi) \div 2
             l == Brackets(ops, lo, mid)
             r == Brackets(ops, mid + 1, hi)
             matched == IF l[2] < r[1] THEN l[2] ELSE r[1]
         IN <<l[1] + r[1] - matched, r[2] + l[2] - matched>>

\* The number of OP_IF/OP_NOTIF of s that no later OP_ENDIF closes.
OpenConditionals(s) ==
    LET I == InstructionStarts(s)
        ops == [j \in 1..Len(I) |-> s[I[j] + 1]]
    IN Brackets(ops, 1, Len(I))[2]

\* A byte string of zero bytes only, except that its last byte may be 0x80;
\* the empty string is one.
IsZeroBytes(d) ==
    \A i \in 1..Len(d) : d[i] = 0 \/ (i = Len(d) /\ d[i] = 128)

---------------------------------------------------------------------------
(* C1..C10.                                                                *)

\* C1: while eval_script runs and when it returns Ok, the stack and the
\* alt-stack hold at most 1000 elements together; a state in which they hold
\* more is the state in which eval_script has returned StackSize, so no
\* further instruction is decoded from it.
C1_StackSizeBounded ==
    /\ result \in {"running"} \cup OkResults
          => Len(stack) + Len(altstack) <= MAX_STACK_SIZE
    /\ Len(stack) + Len(altstack) > MAX_STACK_SIZE
          => result = "Err(StackSize)"

\* C1 witness: StackSize returned when the alt-stack holds part of the
\* elements, so neither stack alone is above the limit.
C1_Witness ==
    /\ result = "Err(StackSize)"
    /\ altstack # <<>>
    /\ Len(stack) <= MAX_STACK_SIZE

\* C2 (the claim as stated): once eval_script has returned on a script that
\* holds an always-disabled opcode as an instruction, it has returned
\* DisabledOpcode at that instruction, unless an earlier instruction failed.
C2_DisabledAlwaysFails ==
    LET p == FirstDisabled(script)
    IN (~Running /\ p >= 0) =>
          \/ result = "Err(DisabledOpcode)" /\ pc = p
          \/ result \in ErrorResults \cup {"panic"} /\ pc < p

\* C3 (the claim as stated): an executed OP_NOP changes nothing and the loop
\* goes on with the instruction after it.
C3_NopContinues ==
    [][ (AboutToDispatch(OP_NOP) /\ is_executing(exec_stack)) =>
           /\ result' = "running"
           /\ ~broke'
           /\ pc' = pc + 1
           /\ UNCHANGED <<stack, altstack, exec_stack, begincode>> ]_vars

\* C4 (the claim as stated): OP_ELSE negates the top of a non-empty
\* conditional stack and returns UnbalancedConditional on an empty one.
C4_ElseNegatesTop ==
    [][ AboutToDispatch(OP_ELSE) =>
           IF exec_stack = <<>>
             THEN result' = "Err(UnbalancedConditional)"
             ELSE /\ result' = "running"
                  /\ exec_stack' = [exec_stack EXCEPT
                                      ![Len(exec_stack)] = ~exec_stack[Len(exec_stack)]] ]_vars

\* C5: OP_IF/OP_NOTIF in executing state pops the top element and pushes its
\* truth value (negated for OP_NOTIF) on the conditional stack, and returns
\* UnbalancedConditional on an empty stack; in non-executing state it pushes
\* false on the conditional stack and leaves the stack as it is.
C5_IfPushesCondition ==
    [][ \A op \in {OP_IF, OP_NOTIF} :
          AboutToDispatch(op) =>
            IF is_executing(exec_stack)
              THEN IF stack = <<>>
                     THEN /\ result' = "Err(UnbalancedConditional)"
                          /\ exec_stack' = exec_stack
                     ELSE /\ result' = "running"
                          /\ stack' = StackPop(stack)
                          /\ exec_stack' =
                               Append(exec_stack,
                                      cast_to_bool(StackTop(stack)) = (op = OP_IF))
              ELSE /\ result' = "running"
                   /\ stack' = stack
                   /\ exec_stack' = Append(exec_stack, FALSE) ]_vars

\* C5 witness: OP_NOTIF has popped a false value in executing state and made
\* the branch an executing one.
C5_Witness ==
    /\ Running /\ pc = 2
    /\ script[1] = OP_0 /\ script[2] = OP_NOTIF
    /\ exec_stack = <<TRUE>>
    /\ stack = <<>>

\* C6 (the claim as stated): eval_script returns Ok only with an empty
\* conditional stack, and never for a script in which some OP_IF/OP_NOTIF
\* is not closed by an OP_ENDIF; OP_ENDIF on an empty conditional stack
\* returns UnbalancedConditional.
C6_UnbalancedNeverOk ==
    /\ result \in OkResults => exec_stack = <<>>
    /\ result \in OkResults => OpenConditionals(script) = 0
    /\ (~Running /\ ~broke /\ pc < Len(script) /\ Current.ok
        /\ Current.opcode = OP_ENDIF /\ exec_stack = <<>>
        /\ op_count <= MAX_OPS_PER_SCRIPT)
          => result = "Err(UnbalancedConditional)"

\* C7: eval_script returns Ok(true) exactly when the final stack is not empty
\* and its top is not a string of zero bytes with an optional 0x80 as the
\* last byte, and Ok(false) otherwise.
C7_SuccessIsTruthOfTop ==
    result \in OkResults =>
       (result = "Ok(true)"
          <=> (stack # <<>> /\ ~IsZeroBytes(StackTop(stack))))

\* C7 witness: Ok(false) on a two-byte negative zero.
C7_Witness ==
    /\ result = "Ok(false)"
    /\ stack # <<>>
    /\ StackTop(stack) = <<0, 128>>

\* C8 (the claim as stated): eval_script ends with Ok(bool) or an Error, and
\* an iteration that neither returns nor leaves the loop moves pc forward.
C8_EndsWithOkOrError ==
    /\ result \in {"running"} \cup OkResults \cup ErrorResults
    /\ pc <= Len(script)

\* The part of C8 that holds: an iteration after which the loop goes on has
\* moved pc forward by at least one byte.
C8_PcAdvances ==
    [][ (AtInstruction /\ result' = "running" /\ ~broke') => pc' > pc ]_vars

\* C9: op_count is the number of countable opcodes decoded so far, in
\* executing and non-executing branches alike, and is at most 201 while the
\* loop runs; OpCount is returned at the 202nd countable opcode.
C9_OpCountBounded ==
    /\ Running =>
         /\ op_count <= MAX_OPS_PER_SCRIPT
         /\ op_count = CountableBefore(script, IF broke THEN pc + 1 ELSE pc)
    /\ result = "Err(OpCount)" =>
         /\ is_countable(Current.opcode)
         /\ CountableBefore(script, pc) = MAX_OPS_PER_SCRIPT
         /\ op_count = MAX_OPS_PER_SCRIPT + 1
    /\ (~Running /\ ~broke /\ pc < Len(script) /\ Current.ok
        /\ is_countable(Current.opcode)
        /\ CountableBefore(script, pc) = MAX_OPS_PER_SCRIPT)
          => result = "Err(OpCount)"

\* C9 witness: OpCount returned for an opcode of a non-executing branch.
C9_Witness ==
    /\ result = "Err(OpCount)"
    /\ exec_stack = <<FALSE>>

\* The loop is at a push instruction whose payload is longer than 520
\* bytes.
AtOversizedPush ==
    /\ AtInstruction
    /\ Current.ok
    /\ Current.has_data
    /\ Len(Current.data) > MAX_SCRIPT_ELEMENT_SIZE

\* C10: whenever the loop decodes a push instruction whose payload is
\* longer than 520 bytes, in executing and in non-executing state alike and
\* whatever the flags, the step returns PushSize, and not Minimaldata,
\* OpCount or DisabledOpcode, with op_count, pc and the stacks as they
\* were; and PushSize is returned by no other step.
C10_PushSizeFirst ==
    [][/\ AtOversizedPush =>
             /\ result' = "Err(PushSize)"
             /\ UNCHANGED <<stack, altstack, exec_stack, pc, op_count,
                            begincode, checker_calls>>
       /\ (Running /\ result' = "Err(PushSize)") => AtOversizedPush]_vars

\* C10 witness: PushSize for a push of 521 bytes in a branch that is not
\* executed, the push being also not minimal and verify_minimaldata set.
C10_Witness ==
    /\ result = "Err(PushSize)"
    /\ "verify_minimaldata" \in flags
    /\ exec_stack = <<FALSE>>
    /\ script[pc + 1] = OP_PUSHDATA4
    /\ Len(Current.data) = MAX_SCRIPT_ELEMENT_SIZE + 1

\* The same in executing state.
C10_ExecutingWitness ==
    /\ result = "Err(PushSize)"
    /\ "verify_minimaldata" \in flags
    /\ exec_stack = <<>>
    /\ script[pc + 1] = OP_PUSHDATA4

---------------------------------------------------------------------------
(* C11..C20.                                                               *)

\* An eval_script call of verify_script has been entered and verify_script
\* has not yet looked at its result.
InEval == phase \in {"script_sig", "script_pubkey", "redeem"}

\* C11: a script of more than 10 000 bytes makes eval_script return
\* ScriptSize with no instruction decoded (pc and op_count stay 0, the
\* conditional stack and the alt-stack stay empty) and with the stack as it
\* was handed in, for script_sig and for script_pubkey alike, and
\* verify_script returns that error.
C11_ScriptSizeRejected ==
    /\ []((InEval /\ Len(script) > MAX_SCRIPT_SIZE) =>
            /\ result = "Err(ScriptSize)"
            /\ pc = 0 /\ op_count = 0
            /\ altstack = <<>> /\ exec_stack = <<>>)
    /\ [][(phase' # phase /\ phase' \in {"script_sig", "script_pubkey"}
             /\ Len(script') > MAX_SCRIPT_SIZE) => stack' = stack]_vars
    /\ [][(InEval /\ Len(script) > MAX_SCRIPT_SIZE) =>
             /\ stack' = stack
             /\ verify_result' = "Err(ScriptSize)"]_vars

\* C11 witness: verify_script has returned ScriptSize for a script_pubkey of
\* 10 001 bytes, and the stack is as script_sig left it.
C11_Witness ==
    /\ phase = "done"
    /\ verify_result = "Err(ScriptSize)"
    /\ Len(script_pubkey) = MAX_SCRIPT_SIZE + 1
    /\ script = script_pubkey
    /\ stack = <<<<1>>>>

\* The opcode that pushes data in the fewest bytes.
ShortestPushOpcode(data) ==
    IF data = <<>> THEN OP_0
    ELSE IF Len(data) = 1 /\ data[1] \in 1..16 THEN OP_1 + data[1] - 1
    ELSE IF data = <<129>> THEN OP_1NEGATE
    ELSE IF Len(data) <= 75 THEN Len(data)
    ELSE IF Len(data) <= 255 THEN OP_PUSHDATA1
    ELSE IF Len(data) <= 65535 THEN OP_PUSHDATA2
    ELSE OP_PUSHDATA4

\* With verify_minimaldata set, the loop is at a push of at most 520 bytes
\* that a shorter opcode could have made.
AtNonMinimalPush ==
    /\ AtInstruction
    /\ "verify_minimaldata" \in flags
    /\ Current.ok
    /\ Current.has_data
    /\ Len(Current.data) <= MAX_SCRIPT_ELEMENT_SIZE
    /\ Current.opcode # ShortestPushOpcode(Current.data)

\* C12: with verify_minimaldata set, a push that a shorter opcode could
\* have made ends eval_script with Minimaldata when it is reached while
\* every entry of the conditional stack is true; in a non-executing branch
\* it is passed over: the loop goes on with the next instruction and the
\* stack is left alone.
C12_MinimaldataWhenExecuted ==
    [][AtNonMinimalPush =>
          IF \A i \in 1..Len(exec_stack) : exec_stack[i]
            THEN result' = "Err(Minimaldata)"
            ELSE /\ result' = "running"
                 /\ pc' = pc + Current.step
                 /\ stack' = stack]_vars

\* C12 as it is stated: Minimaldata for every such push, a push in a
\* non-executing branch included.
C12_MinimaldataEverywhere ==
    [][AtNonMinimalPush => result' = "Err(Minimaldata)"]_vars

\* C12 witness: Minimaldata for the one-byte push of 0x81 inside a branch
\* that is taken.
C12_Witness ==
    /\ result = "Err(Minimaldata)"
    /\ exec_stack = <<TRUE>>
    /\ Current.data = <<129>>

\* The script_pubkey of the inputs that have the pay-to-script-hash form.
PayToScriptHashPubkeys ==
    { PayToScriptHash(r) : r \in {RedeemTrue, RedeemDrop, RedeemFalse} }

\* Pay-to-script-hash re-evaluation is switched on and script_pubkey has
\* the form for it.
P2shCase ==
    "verify_p2sh" \in flags /\ script_pubkey \in PayToScriptHashPubkeys

\* s has an instruction whose opcode is above OP_16.
HasNonPush(s) ==
    LET I == InstructionStarts(s)
    IN \E j \in 1..Len(I) : s[I[j] + 1] > OP_16

\* C13: with verify_p2sh, the stack is copied when script_sig has been
\* evaluated and the copy is not touched while script_pubkey runs; once a
\* script_pubkey of the pay-to-script-hash form has evaluated to true, the
\* top of the copy is evaluated as a script on the rest of the copy, and
\* verify_script returns EvalFalse if that gives false and never Ok unless
\* it gives true.  Without verify_p2sh there is no such evaluation.
C13_P2shReevaluation ==
    /\ [][(phase = "script_sig" /\ phase' = "script_pubkey"
             /\ "verify_p2sh" \in flags) => stack_copy' = stack]_vars
    /\ [][(phase = "script_pubkey" /\ phase' = "script_pubkey")
             => stack_copy' = stack_copy]_vars
    /\ [][(phase = "script_pubkey" /\ result = "Ok(true)" /\ P2shCase
             /\ ~HasNonPush(script_sig) /\ stack_copy # <<>>) =>
               /\ phase' = "redeem"
               /\ script' = stack_copy[Len(stack_copy)]
               /\ stack' = SubSeq(stack_copy, 1, Len(stack_copy) - 1)]_vars
    /\ [][(phase = "redeem" /\ result # "running") =>
               /\ result = "Ok(false)" => verify_result' = "Err(EvalFalse)"
               /\ result # "Ok(true)" => verify_result' # "Ok(())"]_vars
    /\ [](phase = "redeem" => "verify_p2sh" \in flags)

\* C13 witness: EvalFalse from the redeem script OP_DROP, whose result is
\* the element script_sig pushed first.
C13_Witness ==
    /\ phase = "done"
    /\ verify_result = "Err(EvalFalse)"
    /\ script = RedeemDrop
    /\ script_sig = <<OP_0, OP_1>> \o PushBytes(RedeemDrop)
    /\ stack = <<<<>>>>

\* C14: when script_sig has evaluated without error, whether to true or to
\* false, script_pubkey is evaluated on the stack script_sig left; an error
\* of script_sig is returned as it is; when script_pubkey evaluates to
\* false, verify_script returns EvalFalse.
C14_PubkeyFalseIsEvalFalse ==
    /\ [][(phase = "script_sig" /\ result \in OkResults) =>
               /\ phase' = "script_pubkey"
               /\ script' = script_pubkey
               /\ stack' = stack
               /\ verify_result' = "running"]_vars
    /\ [][(phase = "script_sig" /\ result \notin OkResults \cup {"running"})
             => verify_result' = result]_vars
    /\ [][(phase = "script_pubkey" /\ result = "Ok(false)")
             => verify_result' = "Err(EvalFalse)"]_vars

\* C14 witness: script_sig, which is false on its own, has been followed
\* by script_pubkey, and EvalFalse is returned for script_pubkey.
C14_Witness ==
    /\ phase = "done"
    /\ verify_result = "Err(EvalFalse)"
    /\ script_sig = <<OP_0, OP_0>>
    /\ script_pubkey = <<OP_DROP>>
    /\ script = script_pubkey

\* verify_script comes to the check of lines 280-288: the last script has
\* evaluated to true and verify_cleanstack is set.
ReachesCleanstackCheck ==
    /\ "verify_cleanstack" \in flags
    /\ result = "Ok(true)"
    /\ \/ phase = "redeem"
       \/ phase = "script_pubkey" /\ ~P2shCase

\* C15: at the clean-stack check, with verify_p2sh and verify_witness set,
\* verify_script returns Ok if the final stack holds exactly one element and
\* Cleanstack otherwise; with one of the two flags unset the check is an
\* assertion failure.
C15_CleanstackExactlyOne ==
    [][ReachesCleanstackCheck =>
          verify_result' =
             IF {"verify_p2sh", "verify_witness"} \subseteq flags
               THEN IF Len(stack) = 1 THEN "Ok(())" ELSE "Err(Cleanstack)"
               ELSE "panic"]_vars

\* C15 witness: Cleanstack after a redeem script that left two elements.
C15_Witness ==
    /\ phase = "done"
    /\ verify_result = "Err(Cleanstack)"
    /\ script = RedeemTrue
    /\ Len(stack) = 2

\* C16: a script_sig with a non-push opcode is rejected with
\* SignaturePushOnly before any script is evaluated when verify_sigpushonly
\* is set, and, whatever verify_sigpushonly, once a script_pubkey of the
\* pay-to-script-hash form has evaluated to true under verify_p2sh, before
\* the redeem script is evaluated.
C16_SignaturePushOnly ==
    /\ [][(phase = "start" /\ "verify_sigpushonly" \in flags
             /\ HasNonPush(script_sig)) =>
               /\ verify_result' = "Err(SignaturePushOnly)"
               /\ result' = "idle"]_vars
    /\ [][(phase = "script_pubkey" /\ result = "Ok(true)" /\ P2shCase
             /\ HasNonPush(script_sig)) =>
               /\ verify_result' = "Err(SignaturePushOnly)"
               /\ phase' = "done"]_vars

\* C16 witness: SignaturePushOnly without verify_sigpushonly, after the
\* pay-to-script-hash script_pubkey has evaluated to true.
C16_Witness ==
    /\ phase = "done"
    /\ verify_result = "Err(SignaturePushOnly)"
    /\ "verify_sigpushonly" \notin flags
    /\ result = "Ok(true)"
    /\ script = script_pubkey

\* Every entry of the conditional stack is true.
Executing == \A i \in 1..Len(exec_stack) : exec_stack[i]

\* The loop is about to execute OP_CHECKSIG or OP_CHECKSIGVERIFY.
AtChecksig ==
    /\ AboutToDispatch(OP_CHECKSIG) \/ AboutToDispatch(OP_CHECKSIGVERIFY)
    /\ Executing

\* The calls of the checker that the step being taken adds.
NewCalls ==
    SubSeq(checker_calls', Len(checker_calls) + 1, Len(checker_calls'))

\* The two elements a signature opcode reads: the top and the one below.
TopElement == stack[Len(stack)]
SecondElement == stack[Len(stack) - 1]

\* C17: the script code that OP_CHECKSIG and OP_CHECKSIGVERIFY hand to the
\* checker is script[begincode..] without the pushes of the signature.
C17_SubscriptFromBegincode ==
    [][AtChecksig =>
          \A i \in 1..Len(NewCalls) :
             NewCalls[i].script_code =
                find_and_delete(SubSeq(script, begincode + 1, Len(script)),
                                SecondElement)]_vars

\* The checker of the state accepts the signature sig for the key.
Accepts(sig, key) ==
    /\ Len(key) \in {33, 65}
    /\ sig # <<>>
    /\ <<SubSeq(sig, 1, Len(sig) - 1), key>> \in checker

\* C18: when OP_CHECKSIG or OP_CHECKSIGVERIFY is executed on a non-empty
\* signature or a public key that the encoding checks refuse under the
\* flags, eval_script returns the error of the check and the checker is not
\* consulted: SignatureDer for a signature that is not DER under any of the
\* three flags, SignatureHighS for a high S under verify_low_s,
\* SignatureHashtype for an undefined hash type and PubkeyType for a key of
\* no standard type under verify_strictenc.  An empty signature is never
\* refused: the checker is not consulted and the result is false.
C18_EncodingErrorsAreHard ==
    [][(AtChecksig /\ Len(stack) >= 2) =>
          LET sig == SecondElement
              key == TopElement
              sigerr == check_signature_encoding(sig, flags)
              keyerr == check_pubkey_encoding(key, flags)
              strict == "verify_strictenc" \in flags
          IN /\ (sig # <<>> /\ sigerr # "") =>
                   result' = ErrorResult(sigerr) /\ NewCalls = <<>>
             /\ (sigerr = "" /\ keyerr # "") =>
                   result' = ErrorResult(keyerr) /\ NewCalls = <<>>
             /\ (sig = SigNotDer /\ flags # {}) =>
                   result' = "Err(SignatureDer)"
             /\ (sig = SigHighS /\ "verify_low_s" \in flags) =>
                   result' = "Err(SignatureHighS)"
             /\ (sig = SigBadHashtype /\ strict) =>
                   result' = "Err(SignatureHashtype)"
             /\ (sig \in {SigGood, SigEmpty} /\ key # KeyGood /\ strict) =>
                   result' = "Err(PubkeyType)"
             /\ (sig = <<>> /\ (key = KeyGood \/ ~strict)) =>
                   /\ NewCalls = <<>>
                   /\ IF Current.opcode = OP_CHECKSIG
                        THEN /\ result' = "running"
                             /\ stack' = SubSeq(stack, 1, Len(stack) - 2)
                                             \o << <<0>> >>
                        ELSE result' = "Err(CheckSigVerify)"]_vars

\* C18 witness: SignatureHighS has been returned for a signature that the
\* checker would have accepted, and the checker has not been consulted.
C18_Witness ==
    /\ result = "Err(SignatureHighS)"
    /\ checker = AcceptAll
    /\ checker_calls = <<>>
    /\ script = <<OP_CHECKSIG>>

\* C19: OP_CHECKSIG takes the public key from the top and the signature
\* from below it and puts [1] in their place if the checker accepts them
\* and [0] otherwise; OP_CHECKSIGVERIFY takes the same two elements, puts
\* nothing and returns CheckSigVerify if the checker does not accept them;
\* on fewer than two elements both return InvalidStackOperation.
C19_ChecksigStackEffect ==
    [][AtChecksig =>
          IF Len(stack) < 2 THEN result' = "Err(InvalidStackOperation)"
          ELSE checksig_encoding_error(SecondElement, TopElement, flags) = ""
               => LET accepted == Accepts(SecondElement, TopElement)
                      below == SubSeq(stack, 1, Len(stack) - 2)
                  IN IF Current.opcode = OP_CHECKSIG
                       THEN /\ result' = "running"
                            /\ stack' = below \o
                                  << IF accepted THEN <<1>> ELSE <<0>> >>
                       ELSE IF accepted
                         THEN result' = "running" /\ stack' = below
                       ELSE result' = "Err(CheckSigVerify)"]_vars

\* C19 witness: OP_CHECKSIG has replaced an accepted signature and its key
\* by [1].
C19_Witness ==
    /\ script = <<OP_CHECKSIG>>
    /\ pc = 1
    /\ stack = << <<1>> >>
    /\ Len(checker_calls) = 1
    /\ checker_calls[1].public = KeyGood

\* The number that a count element of the inputs encodes.
IsCount(e) == \E n \in -2..22 : NumToBytes(n) = e
CountOf(e) == CHOOSE n \in -2..22 : NumToBytes(n) = e

\* The loop is about to execute OP_CHECKMULTISIG or OP_CHECKMULTISIGVERIFY
\* with a count on top of the stack.
AtMultisig ==
    /\ \/ AboutToDispatch(OP_CHECKMULTISIG)
       \/ AboutToDispatch(OP_CHECKMULTISIGVERIFY)
    /\ Executing
    /\ stack # <<>>
    /\ IsCount(TopElement)

\* C20: with keys_count the number on top of the stack and sigs_count the
\* number below keys_count keys, OP_CHECKMULTISIG(VERIFY) returns
\* PubkeyCount for keys_count outside 0..20, SigCount for sigs_count outside
\* 0..keys_count, and InvalidStackOperation when the stack ends before the
\* counts, the keys, the signatures and the dummy element have been popped;
\* otherwise exactly these keys_count + sigs_count + 3 elements are gone
\* from the stack, and OP_CHECKMULTISIG has pushed one element.
C20_MultisigCounts ==
    [][(AtMultisig /\ flags = {}) =>
          LET n == Len(stack)
              kc == CountOf(TopElement)
              sc == CountOf(stack[n - kc - 1])
              popped == kc + sc + 3
          IN IF kc \notin 0..MAX_PUBKEYS_PER_MULTISIG
               THEN result' = "Err(PubkeyCount)"
             ELSE IF n < kc + 2 THEN result' = "Err(InvalidStackOperation)"
             ELSE IF sc \notin 0..kc THEN result' = "Err(SigCount)"
             ELSE IF n < popped THEN result' = "Err(InvalidStackOperation)"
             ELSE IF Current.opcode = OP_CHECKMULTISIG
               THEN /\ result' = "running"
                    /\ Len(stack') = n - popped + 1
                    /\ SubSeq(stack', 1, n - popped) = SubSeq(stack, 1, n - popped)
             ELSE \/ result' = "Err(CheckSigVerify)"
                  \/ /\ result' = "running"
                     /\ stack' = SubSeq(stack, 1, n - popped)]_vars

\* C20 witness: OP_CHECKMULTISIG has popped 20 keys, 20 signatures, the two
\* counts and the dummy element.
C20_Witness ==
    /\ script = <<OP_CHECKMULTISIG>>
    /\ pc = 1
    /\ stack = << <<1>> >>
    /\ Len(checker_calls) = MAX_PUBKEYS_PER_MULTISIG

---------------------------------------------------------------------------
(* Claims C21 to C30.                                                      *)

\* C21: once OP_CHECKMULTISIG(VERIFY) has popped the counts, the keys and
\* the signatures and the signatures have been walked, it pops one more
\* element, the dummy: with none left it returns InvalidStackOperation; with
\* verify_nulldummy set and a dummy that is not empty it returns
\* SignatureNullDummy; otherwise, whatever the dummy, OP_CHECKMULTISIG
\* pushes [1] or [0] and OP_CHECKMULTISIGVERIFY pushes nothing or returns
\* CheckSigVerify, according to the outcome of the walk (with one signature
\* and one key: whether the checker accepts them; with no signature:
\* success).
C21_MultisigDummy ==
    [][(AtMultisig /\ flags \subseteq {"verify_nulldummy"}) =>
          LET n == Len(stack)
              kc == CountOf(TopElement)
              sc == CountOf(stack[n - kc - 1])
              popped == kc + sc + 3
              below == SubSeq(stack, 1, n - popped)
              dummy == stack[n - popped + 1]
              known == sc = 0 \/ (sc = 1 /\ kc = 1)
              success == sc = 0 \/ Accepts(stack[n - kc - 2], stack[n - 1])
          IN (/\ kc \in 0..MAX_PUBKEYS_PER_MULTISIG
              /\ n >= kc + 2
              /\ IsCount(stack[n - kc - 1])
              /\ sc \in 0..kc
              /\ n >= popped - 1)
             => IF n < popped THEN result' = "Err(InvalidStackOperation)"
                ELSE IF "verify_nulldummy" \in flags /\ dummy # <<>>
                  THEN result' = "Err(SignatureNullDummy)"
                ELSE IF Current.opcode = OP_CHECKMULTISIG
                  THEN /\ result' = "running"
                       /\ stack' \in { below \o << <<1>> >>,
                                       below \o << <<0>> >> }
                       /\ known => (stack' = below \o << <<1>> >> <=> success)
                ELSE /\ \/ result' = "Err(CheckSigVerify)"
                        \/ result' = "running" /\ stack' = below
                     /\ known => (result' = "running" <=> success)]_vars

\* C21 witness: SignatureNullDummy has been returned after a walk in which
\* the checker accepted the signature.
C21_Witness ==
    /\ script = <<OP_CHECKMULTISIG>>
    /\ flags = {"verify_nulldummy"}
    /\ result = "Err(SignatureNullDummy)"
    /\ Len(checker_calls) = 1
    /\ checker = AcceptAll

\* The loop is about to execute the opcode.
AtExecuted(opcode) == AboutToDispatch(opcode) /\ Executing

\* The flag that activates the lock-time opcode the loop is at.
ActivatingFlag ==
    IF Current.opcode = OP_CHECKLOCKTIMEVERIFY
      THEN "verify_clocktimeverify"
      ELSE "verify_chechsequenceverify"

\* The loop is about to execute OP_CHECKLOCKTIMEVERIFY or
\* OP_CHECKSEQUENCEVERIFY.
AtLockOpcode ==
    AtExecuted(OP_CHECKLOCKTIMEVERIFY) \/ AtExecuted(OP_CHECKSEQUENCEVERIFY)

\* C22: executed with its activating flag off, OP_CHECKLOCKTIMEVERIFY and
\* OP_CHECKSEQUENCEVERIFY return DiscourageUpgradableNops under
\* verify_discourage_upgradable_nops and otherwise do nothing: the loop goes
\* on, the stack is as it was and the checker has not been consulted.
C22_FlagOffIsNop ==
    [][(AtLockOpcode /\ ActivatingFlag \notin flags) =>
          IF "verify_discourage_upgradable_nops" \in flags
            THEN result' = "Err(DiscourageUpgradableNops)"
            ELSE /\ result' = "running"
                 /\ stack' = stack
                 /\ NewCalls = <<>>]_vars

\* The number that an element of the lock-time inputs encodes, for the
\* elements that encode a number which is not negative.
IsLockValue(e) == e = <<1, 0>> \/ \E n \in LockValues : WideToBytes(n) = e
LockValueOf(e) ==
    IF e = <<1, 0>> THEN WideNum(FALSE, 0, 1)
    ELSE CHOOSE n \in LockValues : WideToBytes(n) = e

\* The elements of the lock-time inputs that encode -1 and -2^31.
NegativeLockElements == { <<129>>, <<0, 0, 0, 128, 128>> }

\* C23: executed with verify_clocktimeverify on, OP_CHECKLOCKTIMEVERIFY
\* returns InvalidStackOperation on an empty stack, a Num error for a top
\* element of more than five bytes (or one not minimally encoded, under
\* verify_minimaldata), NegativeLocktime for a negative top, and otherwise
\* asks checker.check_lock_time about the number on top, of up to five
\* bytes: UnsatisfiedLocktime if it rejects, and if it accepts the loop goes
\* on with the stack, its top included, as it was.
C23_LockTimeVerify ==
    [][(AtExecuted(OP_CHECKLOCKTIMEVERIFY)
          /\ "verify_clocktimeverify" \in flags) =>
          IF stack = <<>> THEN result' = "Err(InvalidStackOperation)"
          ELSE IF Len(TopElement) > 5 THEN result' = "Err(NumberOverflow)"
          ELSE IF TopElement = <<1, 0>> /\ "verify_minimaldata" \in flags
            THEN result' = "Err(NumberNotMinimallyEncoded)"
          ELSE IF TopElement \in NegativeLockElements
            THEN result' = "Err(NegativeLocktime)" /\ NewCalls = <<>>
          ELSE IsLockValue(TopElement) =>
                 /\ NewCalls = << LockCall("check_lock_time",
                                           LockValueOf(TopElement)) >>
                 /\ IF LockValueOf(TopElement) \in lock_checker.lock_time
                      THEN result' = "running" /\ stack' = stack
                      ELSE result' = "Err(UnsatisfiedLocktime)"]_vars

\* C23 witness: OP_CHECKLOCKTIMEVERIFY has succeeded on the number 2^39 - 1
\* of five bytes, which is still on the stack.
C23_Witness ==
    /\ script = <<OP_CHECKLOCKTIMEVERIFY>>
    /\ "verify_clocktimeverify" \in flags
    /\ pc = 1
    /\ result = "running"
    /\ stack = << <<7>>, <<255, 255, 255, 255, 127>> >>
    /\ Len(checker_calls) = 1

\* The numbers of the lock-time inputs whose bit 31 is set: 2^31, 2^31 + 1
\* and 2^39 - 1.
DisabledSequences ==
    { WideNum(FALSE, 1, 0), WideNum(FALSE, 1, 1),
      WideNum(FALSE, 255, MaxInt31) }

\* C24: executed with verify_chechsequenceverify on, OP_CHECKSEQUENCEVERIFY
\* returns NegativeLocktime for a negative top; for a number with bit 31
\* set the loop goes on and the checker is not consulted; for a number with
\* bit 31 clear it asks checker.check_sequence, and the loop goes on if it
\* accepts and UnsatisfiedLocktime is returned if it rejects; the stack is
\* left as it was.
C24_SequenceVerify ==
    [][(AtExecuted(OP_CHECKSEQUENCEVERIFY)
          /\ "verify_chechsequenceverify" \in flags) =>
          IF stack = <<>> THEN result' = "Err(InvalidStackOperation)"
          ELSE IF TopElement \in NegativeLockElements
            THEN result' = "Err(NegativeLocktime)" /\ NewCalls = <<>>
          ELSE (/\ IsLockValue(TopElement)
                /\ ~(TopElement = <<1, 0>> /\ "verify_minimaldata" \in flags))
               => IF LockValueOf(TopElement) \in DisabledSequences
                    THEN /\ result' = "running"
                         /\ stack' = stack
                         /\ NewCalls = <<>>
                  ELSE /\ NewCalls = << LockCall("check_sequence",
                                                 LockValueOf(TopElement)) >>
                       /\ IF LockValueOf(TopElement) \in lock_checker.sequence
                            THEN result' = "running" /\ stack' = stack
                            ELSE result' = "Err(UnsatisfiedLocktime)"]_vars

\* C24 witness: OP_CHECKSEQUENCEVERIFY has succeeded on 2^31 with a checker
\* that accepts no number, without consulting it.
C24_Witness ==
    /\ script = <<OP_CHECKSEQUENCEVERIFY>>
    /\ "verify_chechsequenceverify" \in flags
    /\ pc = 1
    /\ result = "running"
    /\ stack = << <<0, 0, 0, 128, 0>> >>
    /\ lock_checker = NoTimes
    /\ checker_calls = <<>>

\* The number that an operand of the numeric inputs encodes; [01 00]
\* encodes 1 when minimal encoding is not required.
IsNumValue(e) ==
    \/ \E n \in NumValues : NumToBytes(n) = e
    \/ e = <<1, 0>> /\ "verify_minimaldata" \notin flags
NumValueOf(e) ==
    IF e = <<1, 0>> THEN 1 ELSE CHOOSE n \in NumValues : NumToBytes(n) = e

\* The loop is about to execute the opcode on a stack whose n top elements
\* encode numbers.
AtNumeric(opcode, n) ==
    /\ AtExecuted(opcode)
    /\ Len(stack) >= n
    /\ \A i \in 0..(n - 1) : IsNumValue(stack[Len(stack) - i])

\* The stack after a binary opcode has replaced the two top elements by e.
BinaryResult(e) == SubSeq(stack, 1, Len(stack) - 2) \o <<e>>

\* The Num encoding of 1 and of 0.
EncodedBool(b) == IF b THEN <<1>> ELSE <<>>

\* C25: with b the number on top and a the number below it, OP_LESSTHAN
\* replaces the two by the encoding of 1 if a < b and of 0 otherwise,
\* OP_GREATERTHAN likewise for a > b, OP_LESSTHANOREQUAL for a <= b and
\* OP_GREATERTHANOREQUAL for a >= b.
C25_Comparisons ==
    [][\A opcode \in { OP_LESSTHAN, OP_GREATERTHAN, OP_LESSTHANOREQUAL,
                       OP_GREATERTHANOREQUAL } :
          AtNumeric(opcode, 2) =>
             LET b == NumValueOf(TopElement)
                 a == NumValueOf(SecondElement)
                 holds == CASE opcode = OP_LESSTHAN -> a < b
                            [] opcode = OP_GREATERTHAN -> a > b
                            [] opcode = OP_LESSTHANOREQUAL -> a <= b
                            [] opcode = OP_GREATERTHANOREQUAL -> a >= b
             IN /\ result' = "running"
                /\ stack' = BinaryResult(EncodedBool(holds))]_vars

\* C25 witness: OP_LESSTHANOREQUAL has pushed the encoding of 0 above an
\* element that it has left alone.
C25_Witness ==
    /\ script = <<OP_LESSTHANOREQUAL>>
    /\ pc = 1
    /\ result = "running"
    /\ stack = << <<1, 0>>, <<>> >>

\* The minimal encoding of a + b for numbers of the numeric inputs: the
\* sums beyond 31 bits are 2^31 and 2^32 - 2 and their negatives.
EncodedSum(a, b) ==
    IF a > 0 /\ b > 0 /\ a > MaxInt31 - b
      THEN IF a = MaxInt31 /\ b = MaxInt31
             THEN <<254, 255, 255, 255, 0>> ELSE <<0, 0, 0, 128, 0>>
    ELSE IF a < 0 /\ b < 0 /\ (-a) > MaxInt31 - (-b)
      THEN IF a = -MaxInt31 /\ b = -MaxInt31
             THEN <<254, 255, 255, 255, 128>> ELSE <<0, 0, 0, 128, 128>>
    ELSE NumToBytes(a + b)

\* C26: with b the number on top and a the number below it, OP_SUB
\* replaces the two by the minimal encoding of a - b and OP_ADD by that of
\* a + b, also when the result has five bytes.
C26_AddSub ==
    [][/\ AtNumeric(OP_ADD, 2) =>
            /\ result' = "running"
            /\ stack' = BinaryResult(EncodedSum(NumValueOf(SecondElement),
                                                NumValueOf(TopElement)))
       /\ AtNumeric(OP_SUB, 2) =>
            /\ result' = "running"
            /\ stack' = BinaryResult(EncodedSum(NumValueOf(SecondElement),
                                                -NumValueOf(TopElement)))]_vars

\* C26 witness: OP_SUB has pushed -2^31, a number of five bytes.
C26_Witness ==
    /\ script = <<OP_SUB>>
    /\ pc = 1
    /\ result = "running"
    /\ stack = << <<0, 0, 0, 128, 128>> >>

\* C27: with max the number on top, min the number below it and x the
\* number below that, OP_WITHIN replaces the three by [1] if
\* min <= x <= max and by [0] otherwise.
C27_Within ==
    [][AtNumeric(OP_WITHIN, 3) =>
          LET max == NumValueOf(TopElement)
              min == NumValueOf(SecondElement)
              x == NumValueOf(stack[Len(stack) - 2])
          IN /\ result' = "running"
             /\ stack' = SubSeq(stack, 1, Len(stack) - 3)
                   \o << IF min <= x /\ x <= max THEN <<1>> ELSE <<0>> >>]_vars

\* C27 witness: OP_WITHIN has pushed [1].
C27_Witness ==
    /\ script = <<OP_WITHIN>>
    /\ pc = 1
    /\ result = "running"
    /\ stack = << <<1>> >>

\* C30: OP_EQUAL replaces the two top elements by [1] if they are the same
\* bytes and by [0] otherwise; OP_EQUALVERIFY removes them and returns
\* EqualVerify if they differ; on fewer than two elements both return
\* InvalidStackOperation.
C30_EqualIsBytewise ==
    [][/\ AtExecuted(OP_EQUAL) =>
            IF Len(stack) < 2 THEN result' = "Err(InvalidStackOperation)"
            ELSE /\ result' = "running"
                 /\ stack' = BinaryResult(IF TopElement = SecondElement
                                            THEN <<1>> ELSE <<0>>)
       /\ AtExecuted(OP_EQUALVERIFY) =>
            IF Len(stack) < 2 THEN result' = "Err(InvalidStackOperation)"
            ELSE IF TopElement = SecondElement
              THEN /\ result' = "running"
                   /\ stack' = SubSeq(stack, 1, Len(stack) - 2)
            ELSE result' = "Err(EqualVerify)"]_vars

\* C30 witness: OP_EQUAL has pushed [0] above [01 00]; the elements it
\* compared were not both [01 00].
C30_Witness ==
    /\ script = <<OP_EQUAL>>
    /\ pc = 1
    /\ result = "running"
    /\ stack = << <<1, 0>>, <<0>> >>

\* The loop is about to execute the opcode with room for one more element
\* on the stacks.
AtExecutedWithRoom(opcode) ==
    AtExecuted(opcode) /\ Len(stack) + Len(altstack) < MAX_STACK_SIZE

\* C28: executed OP_1NEGATE pushes [81], the encoding of -1, and the opcode
\* OP_1 + (N - 1) pushes the encoding of N, for N from 1 to 16; the loop goes
\* on in each case (the computation of the value does not fail).
C28_SmallIntegers ==
    [][/\ AtExecutedWithRoom(OP_1NEGATE) =>
            result' = "running" /\ stack' = Append(stack, <<129>>)
       /\ \A N \in 1..16 :
            AtExecutedWithRoom(OP_1 + (N - 1)) =>
               result' = "running" /\ stack' = Append(stack, <<N>>)]_vars

\* C28 for OP_1 .. OP_16 alone.
C28_PositiveSmallIntegers ==
    [][\A N \in 1..16 :
          AtExecutedWithRoom(OP_1 + (N - 1)) =>
             result' = "running" /\ stack' = Append(stack, <<N>>)]_vars

\* A signature is strictly DER: 30 len 02 lenR R 02 lenS S hashtype, of 9 to
\* 73 bytes, len covering all but the first two bytes and the hash type, R
\* and S not empty, not negative and with a leading zero byte only before a
\* byte whose high bit is set.
IsStrictDerInteger(v) ==
    /\ Len(v) >= 1
    /\ v[1] < 128
    /\ (Len(v) > 1 /\ v[1] = 0) => v[2] >= 128

IsStrictDer(sig) ==
    /\ Len(sig) >= 9 /\ Len(sig) <= 73
    /\ sig[1] = 48
    /\ sig[2] = Len(sig) - 3
    /\ sig[3] = 2
    /\ 5 + sig[4] < Len(sig)
    /\ sig[5 + sig[4]] = 2
    /\ sig[4] + sig[6 + sig[4]] + 7 = Len(sig)
    /\ IsStrictDerInteger(SubSeq(sig, 5, 4 + sig[4]))
    /\ IsStrictDerInteger(SubSeq(sig, 7 + sig[4], Len(sig) - 1))

\* C29: under verify_dersig, OP_CHECKSIG and OP_CHECKSIGVERIFY return
\* SignatureDer for a signature that is not empty if and only if it is not
\* strictly DER; a signature whose R or S starts with the zero byte that
\* keeps it positive is strictly DER.
C29_StrictDerAccepted ==
    [][(AtChecksig /\ Len(stack) >= 2 /\ "verify_dersig" \in flags
          /\ SecondElement # <<>>) =>
          (result' = "Err(SignatureDer)" <=> ~IsStrictDer(SecondElement))]_vars

\* C29 for the signatures that are not strictly DER: they are refused.
C29_NotDerRefused ==
    [][(AtChecksig /\ Len(stack) >= 2 /\ "verify_dersig" \in flags
          /\ SecondElement # <<>> /\ ~IsStrictDer(SecondElement)) =>
          result' = "Err(SignatureDer)"]_vars

---------------------------------------------------------------------------
(* Claims C31 to C38.                                                      *)

\* The opcodes C31 names and the number of elements each consumes.
HashOpcodes == { OP_RIPEMD160, OP_SHA1, OP_SHA256, OP_HASH160, OP_HASH256 }

Consumed(opcode) ==
    IF opcode \in {OP_SIZE} \cup HashOpcodes \cup UnaryNumOpcodes THEN 1
    ELSE IF opcode \in {OP_EQUAL, OP_EQUALVERIFY} \cup BinaryNumOpcodes THEN 2
    ELSE IF opcode = OP_WITHIN THEN 3
    ELSE 0

\* The loop is about to execute an opcode that consumes more elements than
\* the stack holds.
AtShortStack ==
    /\ AtInstruction
    /\ Current.ok
    /\ AtExecuted(Current.opcode)
    /\ Len(stack) < Consumed(Current.opcode)

\* stack' is what is left of the stack after some pops: nothing was pushed.
NothingPushed ==
    /\ Len(stack') <= Len(stack)
    /\ stack' = SubSeq(stack, 1, Len(stack'))

\* C31: an executed opcode that finds fewer elements on the stack than it
\* consumes (one for OP_SIZE, the hash opcodes and unary arithmetic; two for
\* OP_EQUAL, OP_EQUALVERIFY and binary arithmetic and comparisons; three
\* for OP_WITHIN) makes eval_script return InvalidStackOperation, and no
\* result is pushed.
C31_TooFewElements ==
    [][AtShortStack =>
          result' = "Err(InvalidStackOperation)" /\ NothingPushed]_vars

\* The same for the stacks all of whose elements decode as numbers under
\* the flags of the call: what remains of C31 once the elements that an
\* arithmetic opcode decodes before it pops the next one are set aside.
C31_TooFewDecodableElements ==
    [][AtShortStack /\ (\A i \in 1..Len(stack) : IsNumValue(stack[i])) =>
          result' = "Err(InvalidStackOperation)" /\ NothingPushed]_vars

\* OP_ADD is about to be executed on a single element of five bytes.
C31_UndecodableOperand ==
    AtExecuted(OP_ADD) /\ stack = << <<0, 0, 0, 0, 1>> >>

\* The loop is at an OP_CODESEPARATOR that the checks before the dispatch
\* let through, in a branch that is not executed.
AtSkippedSeparator == AboutToDispatch(OP_CODESEPARATOR) /\ ~Executing

\* C32: after an executed OP_CODESEPARATOR at byte offset p, begincode is
\* p + step, the offset of the instruction that follows the separator; an
\* OP_CODESEPARATOR in a branch that is not executed leaves begincode as it
\* was.
C32_CodeSeparator ==
    [][/\ AtExecuted(OP_CODESEPARATOR) =>
            result' = "running" /\ begincode' = pc + Current.step
       /\ AtSkippedSeparator => begincode' = begincode]_vars

\* The second half of C32 alone: a separator that is not executed leaves
\* begincode as it was, and the loop goes on with the next instruction.
C32_SkippedSeparator ==
    [][AtSkippedSeparator =>
          /\ result' = "running"
          /\ begincode' = begincode
          /\ pc' = pc + Current.step]_vars

\* What the code does for an executed separator: begincode is the offset of
\* the separator itself.
C32_SeparatorOffset ==
    [][AtExecuted(OP_CODESEPARATOR) =>
          result' = "running" /\ begincode' = pc]_vars

\* OP_CHECKMULTISIG(VERIFY) is about to be executed, without flags, on a
\* stack that holds a dummy, sigs_count signatures, sigs_count, keys_count
\* keys and keys_count, the counts being within their limits.
AtWalk ==
    /\ AtMultisig
    /\ flags = {}
    /\ LET n == Len(stack)
           kc == CountOf(TopElement)
       IN /\ kc \in 0..MAX_PUBKEYS_PER_MULTISIG
          /\ n >= kc + 2
          /\ IsCount(stack[n - kc - 1])
          /\ CountOf(stack[n - kc - 1]) \in 0..kc
          /\ n >= kc + CountOf(stack[n - kc - 1]) + 3

\* The keys and the signatures in the order of the walk, the one nearest to
\* the top of the stack first.
KeysWalked ==
    [i \in 1..CountOf(TopElement) |-> stack[Len(stack) - i]]

SigsWalked ==
    [i \in 1..CountOf(stack[Len(stack) - CountOf(TopElement) - 1]) |->
        stack[Len(stack) - CountOf(TopElement) - 1 - i]]

\* The signatures S can be matched, in order, to a subsequence of the keys
\* K: each signature to a key the checker accepts it for, later signatures
\* to later keys.
RECURSIVE Matchable(_, _)
Matchable(S, K) ==
    IF S = <<>> THEN TRUE
    ELSE IF Len(K) < Len(S) THEN FALSE
    ELSE \/ Accepts(Head(S), Head(K)) /\ Matchable(Tail(S), Tail(K))
         \/ Matchable(S, Tail(K))

\* The number of keys the greedy walk tries: it tries the next key against
\* the next signature, goes on to the next signature when the checker
\* accepts, and stops when no signature is left or fewer keys than
\* signatures are.
RECURSIVE GreedyCalls(_, _)
GreedyCalls(S, K) ==
    IF S = <<>> \/ Len(K) < Len(S) THEN 0
    ELSE 1 + GreedyCalls(IF Accepts(Head(S), Head(K)) THEN Tail(S) ELSE S,
                         Tail(K))

\* The step has recorded the success of the walk: [1] pushed by
\* OP_CHECKMULTISIG, no error from OP_CHECKMULTISIGVERIFY.
WalkSucceeded ==
    /\ result' = "running"
    /\ Current.opcode = OP_CHECKMULTISIG => StackTop(stack') = <<1>>

WalkFailed ==
    IF Current.opcode = OP_CHECKMULTISIG
      THEN result' = "running" /\ StackTop(stack') = <<0>>
      ELSE result' = "Err(CheckSigVerify)"

\* C33: the walk of OP_CHECKMULTISIG succeeds iff the signatures can be
\* matched, in order, to a subsequence of the keys taken in order, and it
\* is the greedy walk: the keys are tried one after the other, each against
\* one signature, the walk stops as soon as fewer keys than signatures
\* remain, and with sigs_count = 0 it succeeds without a call of the
\* checker.
C33_GreedyWalk ==
    [][AtWalk =>
          /\ IF Matchable(SigsWalked, KeysWalked) THEN WalkSucceeded
             ELSE WalkFailed
          /\ Len(NewCalls) = GreedyCalls(SigsWalked, KeysWalked)
          /\ \A i \in 1..Len(NewCalls) :
                /\ NewCalls[i].public = KeysWalked[i]
                /\ \E j \in 1..Len(SigsWalked) :
                      NewCalls[i].signature
                        = SubSeq(SigsWalked[j], 1, Len(SigsWalked[j]) - 1)
          /\ SigsWalked = <<>> => NewCalls = <<>> /\ WalkSucceeded]_vars

\* C33 witness: the walk has succeeded on two signatures and three keys
\* after the checker refused the first key, the one on top, for the first
\* signature.
C33_Witness ==
    /\ script = <<OP_CHECKMULTISIG>>
    /\ pc = 1
    /\ stack = << <<1>> >>
    /\ Len(checker_calls) = 3
    /\ checker_calls[1].public = KeyOther
    /\ checker_calls[1].signature = SubSeq(SigHighS, 1, Len(SigHighS) - 1)
    /\ checker_calls[2].signature = checker_calls[1].signature
    /\ checker_calls[3].signature = SubSeq(SigGood, 1, Len(SigGood) - 1)

\* The loop is at an instruction while the conditional stack holds a false
\* entry, and the opcode, if one can be decoded, is outside OP_IF..OP_ENDIF.
AtSkipped ==
    /\ AtInstruction
    /\ ~Executing
    /\ Current.ok => ~(OP_IF <= Current.opcode /\ Current.opcode <= OP_ENDIF)

\* C34: while the conditional stack holds a false entry, an instruction
\* whose opcode is outside OP_IF..OP_ENDIF leaves the stack, the alt-stack,
\* the conditional stack and begincode unchanged, consults no checker and
\* raises no error other than BadOpcode, PushSize, OpCount or
\* DisabledOpcode; without an error only pc, by the length of the
\* instruction, and op_count, by one for a countable opcode, advance.
C34_SkippedInstruction ==
    [][AtSkipped =>
          /\ UNCHANGED <<stack, altstack, exec_stack, begincode,
                         checker_calls>>
          /\ ~broke'
          /\ result' \in { "running", "Err(BadOpcode)", "Err(PushSize)",
                           "Err(OpCount)", "Err(DisabledOpcode)" }
          /\ result' = "running" =>
                /\ pc' = pc + Current.step
                /\ op_count' = count_op(Current.opcode, op_count)]_vars

\* C34 witness: OP_RETURN has been passed over in a branch that is not
\* executed, with elements on the stack and the alt-stack and begincode
\* set by a separator.
C34_Witness ==
    /\ script = <<OP_CODESEPARATOR, OP_DUP, OP_TOALTSTACK, OP_0, OP_IF,
                  OP_RETURN, OP_ENDIF, OP_CHECKSIG>>
    /\ pc = 6
    /\ Running
    /\ exec_stack = <<FALSE>>
    /\ stack = <<SigGood, KeyGood>>
    /\ altstack = <<KeyGood>>

\* OP_PICK or OP_ROLL is about to be executed on a stack whose top element
\* decodes as the number n under the flags of the call.
AtPickRoll(opcode, n) ==
    /\ AtExecuted(opcode)
    /\ stack # <<>>
    /\ Num_from_slice(TopElement, "verify_minimaldata" \in flags, 4)
         = [err |-> "", value |-> n]

\* The stack once the index has been popped.
BelowIndex == SubSeq(stack, 1, Len(stack) - 1)

\* The element n positions below the top of st, and st without it.
Picked(st, n) == st[Len(st) - n]

Without(st, n) == [i \in 1..(Len(st) - 1) |->
                      IF i < Len(st) - n THEN st[i] ELSE st[i + 1]]

\* C35: OP_PICK and OP_ROLL pop an index n and return
\* InvalidStackOperation if n < 0 or n is not below the depth of the stack
\* after that pop; otherwise OP_PICK pushes a copy of the element n
\* positions below the top, the stack below it unchanged, and OP_ROLL moves
\* that element to the top, the other elements keeping their order.
C35_PickRoll ==
    [][\A n \in -1..3 :
          /\ AtPickRoll(OP_PICK, n) =>
               IF n < 0 \/ n >= Len(BelowIndex)
                 THEN result' = "Err(InvalidStackOperation)"
                 ELSE /\ result' = "running"
                      /\ stack' = Append(BelowIndex, Picked(BelowIndex, n))
          /\ AtPickRoll(OP_ROLL, n) =>
               IF n < 0 \/ n >= Len(BelowIndex)
                 THEN result' = "Err(InvalidStackOperation)"
                 ELSE /\ result' = "running"
                      /\ stack' = Append(Without(BelowIndex, n),
                                         Picked(BelowIndex, n))]_vars

\* C35 witness: OP_ROLL has moved the element two positions below the top,
\* the bottom one of three, to the top.
C35_Witness ==
    /\ script = <<OP_ROLL>>
    /\ pc = 1
    /\ Running
    /\ stack = << <<8>>, <<9>>, <<7>> >>

\* OP_PICK has copied the element one position below the top.
C35_PickWitness ==
    /\ script = <<OP_PICK>>
    /\ pc = 1
    /\ Running
    /\ stack = << <<7>>, <<8>>, <<9>>, <<8>> >>

\* A step of verify_script that enters eval_script.
EntersEval == phase' # phase /\ phase' \in {"script_sig", "script_pubkey", "redeem"}

\* C36: every call of eval_script starts with an empty alt-stack, whatever
\* the call before left on its own, while script_pubkey starts with the
\* main stack script_sig left; within a call OP_TOALTSTACK moves the top
\* element to the alt-stack and OP_FROMALTSTACK moves the element moved
\* last back, returning InvalidAltstackOperation when the alt-stack is
\* empty; so a script_pubkey or a redeem script that starts with
\* OP_FROMALTSTACK fails with InvalidAltstackOperation.
C36_AltstackLifecycle ==
    [][/\ EntersEval => altstack' = <<>>
       /\ (phase = "script_sig" /\ phase' = "script_pubkey") => stack' = stack
       /\ (InEval /\ AtExecuted(OP_TOALTSTACK) /\ stack # <<>>) =>
             /\ result' = "running"
             /\ altstack' = Append(altstack, TopElement)
             /\ stack' = StackPop(stack)
       /\ (InEval /\ AtExecuted(OP_FROMALTSTACK)) =>
             IF altstack = <<>>
               THEN result' = "Err(InvalidAltstackOperation)"
               ELSE /\ result' = "running"
                    /\ stack' = Append(stack, altstack[Len(altstack)])
                    /\ altstack' = SubSeq(altstack, 1, Len(altstack) - 1)
       /\ (/\ phase \in {"script_pubkey", "redeem"}
           /\ AtExecuted(OP_FROMALTSTACK)
           /\ pc = 0) => result' = "Err(InvalidAltstackOperation)"]_vars

\* C36 witness: verify_script has returned InvalidAltstackOperation from a
\* script_pubkey that asked for the element script_sig had moved to its
\* alt-stack; the element script_sig left on the main stack is there.
C36_Witness ==
    /\ phase = "done"
    /\ script_sig = <<OP_1, OP_2, OP_TOALTSTACK>>
    /\ script_pubkey = <<OP_FROMALTSTACK>>
    /\ verify_result = "Err(InvalidAltstackOperation)"
    /\ stack = << <<1>> >>
    /\ altstack = <<>>

\* The redeem script has failed for the same reason, and within script_sig
\* two elements have come back in last-in-first-out order.
C36_RedeemWitness ==
    /\ phase = "done"
    /\ script = RedeemFromAlt
    /\ script_pubkey = PayToScriptHash(RedeemFromAlt)
    /\ verify_result = "Err(InvalidAltstackOperation)"

C36_LifoWitness ==
    /\ phase = "script_sig"
    /\ script_sig = <<OP_1, OP_2, OP_TOALTSTACK, OP_TOALTSTACK,
                      OP_FROMALTSTACK, OP_FROMALTSTACK>>
    /\ pc = 6
    /\ stack = << <<1>>, <<2>> >>

\* s has the form OP_HASH160 <20 bytes> OP_EQUAL.
IsP2shPattern(s) ==
    Len(s) = 23 /\ s[1] = OP_HASH160 /\ s[2] = 20 /\ s[23] = OP_EQUAL

\* verify_script is at the assertion of line 267: verify_p2sh is set,
\* script_sig has been evaluated without error and is push-only,
\* script_pubkey has the pay-to-script-hash form and has evaluated to true.
AtP2shAssert ==
    /\ phase = "script_pubkey"
    /\ result = "Ok(true)"
    /\ "verify_p2sh" \in flags
    /\ IsP2shPattern(script_pubkey)
    /\ ~HasNonPush(script_sig)

\* C37: whenever verify_script reaches the assertion !stack.is_empty() of
\* its pay-to-script-hash branch, the copy of the stack taken right after
\* script_sig holds at least one element: the assertion holds, and
\* verify_script goes on to evaluate the top element of the copy as the
\* redeem script on the elements below it; verify_script panics after
\* script_pubkey only by the assertions on verify_cleanstack.
C37_P2shAssertHolds ==
    [][/\ AtP2shAssert =>
             /\ stack_copy # <<>>
             /\ verify_result' # "panic"
             /\ phase' = "redeem"
             /\ script' = stack_copy[Len(stack_copy)]
             /\ stack' = SubSeq(stack_copy, 1, Len(stack_copy) - 1)
       /\ (phase = "script_pubkey" /\ verify_result' = "panic") =>
             "verify_cleanstack" \in flags /\ ~AtP2shAssert]_vars

\* C37 witness: the redeem script, the only element script_sig left, is
\* about to be evaluated on an empty stack.
C37_Witness ==
    /\ phase = "redeem"
    /\ "verify_p2sh" \in flags
    /\ script_sig = PushBytes(RedeemTrue)
    /\ script_pubkey = PayToScriptHash(RedeemTrue)
    /\ script = RedeemTrue
    /\ pc = 0
    /\ stack = <<>>
    /\ stack_copy = << <<1>> >>

\* OP_CHECKMULTISIG(VERIFY) is about to be executed on a stack from which
\* it pops keys_count in 0..20, that many keys, sigs_count in
\* 0..keys_count and that many signatures: the walk is entered.
AtWalkEntered ==
    /\ AtMultisig
    /\ LET n == Len(stack)
           kc == CountOf(TopElement)
       IN /\ kc \in 0..MAX_PUBKEYS_PER_MULTISIG
          /\ n >= kc + 2
          /\ IsCount(stack[n - kc - 1])
          /\ CountOf(stack[n - kc - 1]) \in 0..kc
          /\ n >= kc + CountOf(stack[n - kc - 1]) + 2

\* The number of calls among the first j of the step that the checker
\* accepted: the index s after j iterations of the walk.
AcceptedCalls(j) ==
    Cardinality({ i \in 1..j :
                    <<NewCalls[i].signature, NewCalls[i].public>> \in checker })

\* C38: in the walk of OP_CHECKMULTISIG, for keys_count in 0..20,
\* sigs_count in 0..keys_count and every checker, no index is out of range
\* and no subtraction underflows (the step does not panic): before each
\* call of the checker, the j-th having k = j - 1 and s the number of calls
\* accepted so far, k < keys_count and s < sigs_count; after it
\* k <= keys_count and s <= sigs_count; and the walk ends after at most
\* keys_count calls.
C38_WalkIndices ==
    [][AtWalkEntered =>
          LET kc == CountOf(TopElement)
              sc == CountOf(stack[Len(stack) - kc - 1])
          IN /\ result' # "panic"
             /\ Len(NewCalls) <= kc
             /\ \A j \in 1..Len(NewCalls) :
                   /\ j - 1 < kc
                   /\ AcceptedCalls(j - 1) < sc
                   /\ AcceptedCalls(j) <= sc
                   /\ NewCalls[j].public = stack[Len(stack) - j]
                   /\ NewCalls[j].signature =
                        SubSeq(stack[Len(stack) - kc - 2 - AcceptedCalls(j - 1)],
                               1,
                               Len(stack[Len(stack) - kc - 2
                                         - AcceptedCalls(j - 1)]) - 1)]_vars

\* C38 witness: the walk has ended on its third key, the last one, having
\* matched its second signature there.
C38_Witness ==
    /\ script = <<OP_CHECKMULTISIGVERIFY>>
    /\ pc = 1
    /\ Running
    /\ stack = <<>>
    /\ checker = { <<SubSeq(SigGood, 1, Len(SigGood) - 1), KeyGood>> }
    /\ Len(checker_calls) = 3
    /\ checker_calls[1].public = KeyGood
    /\ checker_calls[2].public = KeyOther
    /\ checker_calls[3].public = KeyGood

====
